---- MODULE Spec2Model ----
(***************************************************************************)
(* Model of package reflectex (vedranvuk/reflectex): the deep value        *)
(* comparator CompareValues of compare.go, the text converter              *)
(* StringToValue of convert.go, and the struct helpers StructPartialEqual, *)
(* LazyStructCopy and FilterStruct of reflectex.go.                        *)
(*                                                                         *)
(* A Go value is a record ("data"); a reflect.Value is a handle: the data  *)
(* plus the addressable flag that reflect carries (flagAddr), which        *)
(* decides CanSet.  Text is a sequence of bytes, so that strings.Compare   *)
(* is the lexicographic order the Go runtime computes.  A call that panics *)
(* yields the result Panic; every other call yields R(v).                  *)
(*                                                                         *)
(* The converter writes through its handles, so its values live in a       *)
(* memory of cells and its handles name a cell; a conversion yields the    *)
(* error it returned, or that it panicked, and the memory it leaves.       *)
(***************************************************************************)
EXTENDS Integers, Sequences, FiniteSets, TLC

\* ------------------------------------------------------------ bounds
\* int operands are 0..MaxInt
MaxInt == 2
\* array and slice elements are 0..MaxElem
MaxElem == 1
\* arrays and slices hold at most MaxLen elements
MaxLen == 2
\* pointer chains have at most MaxDepth levels
MaxDepth == 2
\* the input lists of the converter have at most MaxParts elements
MaxParts == 2

\* ------------------------------------------------------------ text
Lt == <<60>>
ValueGt == <<32, 86, 97, 108, 117, 101, 62>>
InvalidText == <<60, 105, 110, 118, 97, 108, 105, 100, 32, 86, 97, 108, 117, 101, 62>>

RECURSIVE Digits(_)
\* strconv.Itoa for n >= 0
Digits(n) == IF n < 10 THEN <<48 + n>> ELSE Digits(n \div 10) \o <<48 + (n % 10)>>

RECURSIVE StringsCompare(_, _)
\* strings.Compare: -1, 0, +1 by lexicographic byte order
StringsCompare(x, y) ==
    IF x = <<>> /\ y = <<>> THEN 0
    ELSE IF x = <<>> THEN -1
    ELSE IF y = <<>> THEN 1
    ELSE IF Head(x) < Head(y) THEN -1
    ELSE IF Head(x) > Head(y) THEN 1
    ELSE StringsCompare(Tail(x), Tail(y))

\* ------------------------------------------------------------ kinds
KindOrderListed ==
    << "Invalid", "Bool", "Int", "Int8", "Int16", "Int32", "Int64",
       "Uint", "Uint8", "Uint16", "Uint32", "Uint64", "Uintptr",
       "Float32", "Float64", "Complex64", "Complex128",
       "String", "Array", "Slice", "Map", "Struct", "Ptr", "Interface",
       "Chan", "Func", "UnsafePointer" >>

\* reflect.Kind, in the order of its enumeration
KindOrder ==
    << "Invalid", "Bool", "Int", "Int8", "Int16", "Int32", "Int64",
       "Uint", "Uint8", "Uint16", "Uint32", "Uint64", "Uintptr",
       "Float32", "Float64", "Complex64", "Complex128",
       "Array", "Chan", "Func", "Interface", "Map", "Ptr", "Slice",
       "String", "Struct", "UnsafePointer" >>

\* int(k) for a reflect.Kind k
KindIndex(k) == (CHOOSE i \in 1..Len(KindOrder) : KindOrder[i] = k) - 1

IntKinds == {"Int", "Int8", "Int16", "Int32", "Int64"}
UintKinds == {"Uint", "Uint8", "Uint16", "Uint32", "Uint64", "Uintptr"}
FloatKinds == {"Float32", "Float64"}
ComplexKinds == {"Complex64", "Complex128"}
\* the kinds reflect.Value.Len accepts
LenKinds == {"Array", "Chan", "Map", "Slice", "String"}
\* the kinds reflect.Value.Pointer accepts
PointerKinds == {"Chan", "Func", "Map", "Ptr", "Slice", "UnsafePointer"}

compareKindSwapped(a, b) ==
    IF KindIndex(a) > KindIndex(b) THEN -1
    ELSE IF KindIndex(a) < KindIndex(b) THEN 1
    ELSE 0

compareKindDiff(a, b) == KindIndex(a) - KindIndex(b)

compareKind(a, b) ==
    IF KindIndex(a) > KindIndex(b) THEN 1
    ELSE IF KindIndex(a) < KindIndex(b) THEN -1
    ELSE 0

\* ------------------------------------------------------------ values
\* The zero reflect.Value's data; every data record has these fields.
\*   kind, typ  the value's reflect.Kind and the text of its type
\*   b          a bool's value
\*   n, im, nan an integer, a float (nan: it is NaN), a complex's real and
\*              imaginary parts, or the address a pointer-like value holds
\*   scale      a float is n / 10^scale
\*   str        a string's bytes
\*   elems      an array's or slice's elements; a pointer's pointee or an
\*              interface's content (empty: nil)
\*   ents       a map's entries [k, v], in the order MapKeys yields them
\*   flds       a struct's fields [name, val], in declaration order
ZeroData ==
    [kind |-> "Invalid", typ |-> <<>>, b |-> FALSE, n |-> 0, im |-> 0,
     nan |-> FALSE, scale |-> 0, str |-> <<>>, elems |-> <<>>, ents |-> <<>>,
     flds |-> <<>>]

\* reflect.ValueOf(x): a handle that is not addressable
ValueOf(d) == [d |-> d, addr |-> FALSE]
InvalidValue == ValueOf(ZeroData)

Kind(h) == h.d.kind

\* Value.Elem of a pointer: the zero Value for nil, else the addressable pointee
Elem(h) ==
    IF h.d.elems = <<>> THEN InvalidValue
    ELSE [d |-> h.d.elems[1], addr |-> TRUE]

\* Value.Index: a slice's elements are addressable, an array's as the array is
Index(h, i) ==
    [d |-> h.d.elems[i], addr |-> IF Kind(h) = "Slice" THEN TRUE ELSE h.addr]

\* Value.Len, for the kinds of LenKinds
ValueLen(h) ==
    IF Kind(h) = "Map" THEN Len(h.d.ents)
    ELSE IF Kind(h) = "String" THEN Len(h.d.str)
    ELSE Len(h.d.elems)

\* Value.String: a string's bytes, "<T Value>" for any other kind
ValueString(h) ==
    IF Kind(h) = "Invalid" THEN InvalidText
    ELSE IF Kind(h) = "String" THEN h.d.str
    ELSE Lt \o h.d.typ \o ValueGt

\* fmt.Sprint of a complex number with non-negative integral parts
SprintComplex(h) ==
    <<40>> \o Digits(h.d.n) \o <<43>> \o Digits(h.d.im) \o <<105, 41>>

\* a field is exported when its name starts with an upper-case letter
IsExported(name) == name # <<>> /\ name[1] \in 65..90

\* Value.Field(i).CanSet(): addressable and not reached through a private field
FieldCanSet(h, i) == h.addr /\ IsExported(h.d.flds[i].name)

\* Value.FieldByName: the zero Value when the struct has no field of the name
FieldByName(h, name) ==
    LET i == CHOOSE j \in 1..Len(h.d.flds) : h.d.flds[j].name = name
    IN  IF \A j \in 1..Len(h.d.flds) : h.d.flds[j].name # name THEN InvalidValue
        ELSE [d |-> h.d.flds[i].val, addr |-> h.addr]

\* reflect.ValueOf(v.Interface()): the content of an interface, the value itself
\* otherwise, never addressable
Unwrap(h) ==
    IF Kind(h) = "Interface"
    THEN IF h.d.elems = <<>> THEN InvalidValue ELSE ValueOf(h.d.elems[1])
    ELSE ValueOf(h.d)

\* ------------------------------------------------------------ results
R(v) == [panic |-> FALSE, val |-> v]
Panic == [panic |-> TRUE, val |-> 0]

\* ------------------------------------------------------------ sorting
RECURSIVE InsertByText(_, _, _)
\* insert index i into perm, kept ascending by texts
InsertByText(i, perm, texts) ==
    IF perm = <<>> THEN <<i>>
    ELSE IF StringsCompare(texts[i], texts[Head(perm)]) < 0 THEN <<i>> \o perm
    ELSE <<Head(perm)>> \o InsertByText(i, Tail(perm), texts)

RECURSIVE SortPerm(_, _)
\* sort.Slice with less = (text[i] < text[j]): the indices 1..k in ascending text order
SortPerm(k, texts) ==
    IF k = 0 THEN <<>> ELSE InsertByText(k, SortPerm(k - 1, texts), texts)

SortByText(k, texts) == SortPerm(k, texts)

\* ------------------------------------------------------------ CompareValues
RECURSIVE CompareValues(_, _)
RECURSIVE Deref(_)
RECURSIVE PtrDepth(_)
RECURSIVE CompareElems(_, _, _)
RECURSIVE CompareKeys(_, _, _)
RECURSIVE CompareMapValues(_, _, _, _, _)
RECURSIVE CompareFields(_, _, _, _, _)

\* for a.Kind() == reflect.Ptr { a = a.Elem() }
Deref(h) == IF Kind(h) = "Ptr" THEN Deref(Elem(h)) ELSE h

\* apd, bpd: the number of times the loop ran
PtrDepth(h) == IF Kind(h) = "Ptr" THEN 1 + PtrDepth(Elem(h)) ELSE 0

CompareBool(a, b) ==
    IF Kind(b) # "Bool" THEN Panic
    ELSE IF a.d.b = b.d.b THEN R(0)
    ELSE IF a.d.b THEN R(1)
    ELSE R(-1)

CompareIntByMagnitude(a, b) ==
    LET res == compareKind(Kind(a), Kind(b))
        abs(n) == IF n < 0 THEN 0 - n ELSE n
    IN  IF res # 0 THEN R(res)
        ELSE IF abs(a.d.n) = abs(b.d.n) THEN R(0)
        ELSE IF abs(a.d.n) > abs(b.d.n) THEN R(1)
        ELSE R(-1)

\* case Int..Int64, and case Uint..Uintptr
CompareInt(a, b) ==
    LET res == compareKind(Kind(a), Kind(b))
    IN  IF res # 0 THEN R(res)
        ELSE IF a.d.n = b.d.n THEN R(0)
        ELSE IF a.d.n > b.d.n THEN R(1)
        ELSE R(-1)

\* a comparison with NaN is false
CompareFloat(a, b) ==
    LET res == compareKind(Kind(a), Kind(b))
    IN  IF res # 0 THEN R(res)
        ELSE IF ~a.d.nan /\ ~b.d.nan /\ a.d.n = b.d.n THEN R(0)
        ELSE IF ~a.d.nan /\ ~b.d.nan /\ a.d.n > b.d.n THEN R(1)
        ELSE R(-1)

CompareComplex(a, b) ==
    LET res == compareKind(Kind(a), Kind(b))
    IN  IF res # 0 THEN R(res)
        ELSE R(StringsCompare(SprintComplex(a), SprintComplex(b)))

\* for i := 0; i < a.Len(); i++, from index i (1-based)
CompareElems(a, b, i) ==
    IF i > ValueLen(a) THEN R(0)
    ELSE LET res == CompareValues(Index(a, i), Index(b, i))
         IN  IF res.panic \/ res.val # 0 THEN res
             ELSE CompareElems(a, b, i + 1)

CompareSeqLexicographic(a, b) ==
    LET res == compareKind(Kind(a), Kind(b))
        m == IF ValueLen(a) < ValueLen(b) THEN ValueLen(a) ELSE ValueLen(b)
        firstDiff == {i \in 1..m :
                        LET r == CompareValues(Index(a, i), Index(b, i))
                        IN  r.panic \/ r.val # 0}
    IN  IF res # 0 THEN R(res)
        ELSE IF firstDiff # {}
        THEN CompareValues(Index(a, CHOOSE i \in firstDiff : \A j \in firstDiff : i <= j),
                           Index(b, CHOOSE i \in firstDiff : \A j \in firstDiff : i <= j))
        ELSE IF ValueLen(a) = ValueLen(b) THEN R(0)
        ELSE IF ValueLen(a) > ValueLen(b) THEN R(1)
        ELSE R(-1)

\* case Array, Slice
CompareSeq(a, b) ==
    LET res == compareKind(Kind(a), Kind(b))
    IN  IF res # 0 THEN R(res)
        ELSE IF ValueLen(a) = ValueLen(b) THEN CompareElems(a, b, 1)
        ELSE IF ValueLen(a) > ValueLen(b) THEN R(1)
        ELSE R(-1)

\* the keys of a map, as MapKeys yields them
MapKeys(h) == [i \in 1..Len(h.d.ents) |-> ValueOf(h.d.ents[i].k)]

\* Value.MapIndex(key)
MapIndex(h, key) ==
    LET i == CHOOSE j \in 1..Len(h.d.ents) : h.d.ents[j].k = key.d
    IN  ValueOf(h.d.ents[i].v)

KeyTexts(keys) == [i \in 1..Len(keys) |-> ValueString(keys[i])]

SortKeys(keys) ==
    LET perm == SortByText(Len(keys), KeyTexts(keys))
    IN  [i \in 1..Len(keys) |-> keys[perm[i]]]

\* the loop over the sorted keys, from index i
CompareKeys(akeys, bkeys, i) ==
    IF i > Len(akeys) THEN 0
    ELSE LET kres == compareKind(Kind(akeys[i]), Kind(bkeys[i]))
             sres == StringsCompare(ValueString(akeys[i]), ValueString(bkeys[i]))
         IN  IF kres # 0 THEN kres
             ELSE IF sres # 0 THEN sres
             ELSE CompareKeys(akeys, bkeys, i + 1)

\* the loop over the values, from index i; its body runs only
\* if a.Kind() != b.Kind()
CompareMapValues(a, b, akeys, bkeys, i) ==
    IF i > Len(akeys) THEN R(0)
    ELSE LET aval == MapIndex(a, akeys[i])
             bval == MapIndex(b, bkeys[i])
             kres == compareKind(Kind(aval), Kind(bval))
             vres == CompareValues(aval, bval)
         IN  IF Kind(a) # Kind(b)
             THEN IF kres # 0 THEN R(kres)
                  ELSE IF vres.panic \/ vres.val # 0 THEN vres
                  ELSE CompareMapValues(a, b, akeys, bkeys, i + 1)
             ELSE CompareMapValues(a, b, akeys, bkeys, i + 1)

\* case Map
CompareMap(a, b) ==
    IF Kind(b) \notin LenKinds THEN Panic
    ELSE IF ValueLen(a) > ValueLen(b) THEN R(1)
    ELSE IF ValueLen(a) < ValueLen(b) THEN R(-1)
    ELSE IF Kind(b) # "Map" THEN Panic
    ELSE LET akeys == SortKeys(MapKeys(a))
             bkeys == SortKeys(MapKeys(b))
             kres == CompareKeys(akeys, bkeys, 1)
         IN  IF kres # 0 THEN R(kres)
             ELSE CompareMapValues(a, b, akeys, bkeys, 1)

\* case String
CompareString(a, b) == R(StringsCompare(ValueString(a), ValueString(b)))

\* the names of the fields that pass CanSet, in declaration order
PublicNames(h) ==
    LET keep(i) == FieldCanSet(h, i)
        idx == SelectSeq([i \in 1..Len(h.d.flds) |-> i], keep)
    IN  [i \in 1..Len(idx) |-> h.d.flds[idx[i]].name]

SortNames(names) ==
    LET perm == SortByText(Len(names), names)
    IN  [i \in 1..Len(names) |-> names[perm[i]]]

\* the loop over the sorted fields, from index i
CompareFields(a, b, aflds, bflds, i) ==
    IF i > Len(aflds) THEN R(0)
    ELSE LET af == FieldByName(a, aflds[i])
             bf == FieldByName(b, bflds[i])
             kres == compareKind(Kind(af), Kind(bf))
             nres == StringsCompare(aflds[i], bflds[i])
             vres == CompareValues(af, bf)
         IN  IF kres # 0 THEN R(kres)
             ELSE IF nres # 0 THEN R(nres)
             ELSE IF vres.panic \/ vres.val # 0 THEN vres
             ELSE CompareFields(a, b, aflds, bflds, i + 1)

\* case Struct
CompareStruct(a, b) ==
    IF Kind(b) # "Struct" THEN Panic
    ELSE LET aflds == PublicNames(a)
             bflds == PublicNames(b)
         IN  IF Len(aflds) > Len(bflds) THEN R(1)
             ELSE IF Len(aflds) < Len(bflds) THEN R(-1)
             ELSE CompareFields(a, b, SortNames(aflds), SortNames(bflds), 1)

\* case Interface: Value.Interface panics on the zero Value
CompareInterface(a, b) ==
    IF Kind(b) = "Invalid" THEN Panic
    ELSE CompareValues(Unwrap(a), Unwrap(b))

\* case Ptr, UnsafePointer
ComparePointer(a, b) ==
    IF Kind(b) \notin PointerKinds THEN Panic
    ELSE IF a.d.n = b.d.n THEN R(0)
    ELSE IF a.d.n > b.d.n THEN R(1)
    ELSE R(-1)

\* switch a.Kind()
CompareByKind(a, b) ==
    CASE Kind(a) = "Bool" -> CompareBool(a, b)
      [] Kind(a) \in IntKinds -> CompareInt(a, b)
      [] Kind(a) \in UintKinds -> CompareInt(a, b)
      [] Kind(a) \in FloatKinds -> CompareFloat(a, b)
      [] Kind(a) \in ComplexKinds -> CompareComplex(a, b)
      [] Kind(a) \in {"Array", "Slice"} -> CompareSeq(a, b)
      [] Kind(a) = "Map" -> CompareMap(a, b)
      [] Kind(a) = "String" -> CompareString(a, b)
      [] Kind(a) = "Struct" -> CompareStruct(a, b)
      [] Kind(a) = "Interface" -> CompareInterface(a, b)
      [] Kind(a) \in {"Ptr", "UnsafePointer"} -> ComparePointer(a, b)
      [] OTHER -> R(0)

\* a CompareValues that strips the pointers and does not compare their depth
CompareValuesDepthBlind(a, b) ==
    LET res == compareKind(Kind(a), Kind(b))
    IN  IF res # 0 THEN R(res)
        ELSE CompareByKind(Deref(a), Deref(b))

CompareValues(a, b) ==
    LET res == compareKind(Kind(a), Kind(b))
        apd == PtrDepth(a)
        bpd == PtrDepth(b)
    IN  IF res # 0 THEN R(res)
        ELSE IF apd > bpd THEN R(1)
        ELSE IF bpd > apd THEN R(-1)
        ELSE CompareByKind(Deref(a), Deref(b))

\* ------------------------------------------------------------ operands
TBool == <<98, 111, 111, 108>>
TInt == <<105, 110, 116>>
TInt8 == <<105, 110, 116, 56>>
TUint == <<117, 105, 110, 116>>
TUint8 == <<117, 105, 110, 116, 56>>
TFloat64 == <<102, 108, 111, 97, 116, 54, 52>>
TComplex128 == <<99, 111, 109, 112, 108, 101, 120, 49, 50, 56>>
TString == <<115, 116, 114, 105, 110, 103>>
TInterface == <<105, 110, 116, 101, 114, 102, 97, 99, 101, 32, 123, 125>>
TChan == <<99, 104, 97, 110, 32, 105, 110, 116>>
TFunc == <<102, 117, 110, 99, 40, 41>>
TUnsafe == <<117, 110, 115, 97, 102, 101, 46, 80, 111, 105, 110, 116, 101, 114>>
\* the struct types of TestCompareInterfaceStruct, and one with a single field
TA == <<114, 101, 102, 108, 101, 99, 116, 101, 120, 46, 65>>
TB == <<114, 101, 102, 108, 101, 99, 116, 101, 120, 46, 66>>
TC == <<114, 101, 102, 108, 101, 99, 116, 101, 120, 46, 67>>
TD == <<114, 101, 102, 108, 101, 99, 116, 101, 120, 46, 68>>
TE == <<114, 101, 102, 108, 101, 99, 116, 101, 120, 46, 69>>
TPtr(t) == <<42>> \o t
TSlice(t) == <<91, 93>> \o t
TArray(k, t) == <<91>> \o Digits(k) \o <<93>> \o t
TMap(kt, vt) == <<109, 97, 112, 91>> \o kt \o <<93>> \o vt

\* field names
FName == <<78, 97, 109, 101>>
FAge == <<65, 103, 101>>
FHidden == <<104, 105, 100, 100, 101, 110>>
FFOO == <<70, 79, 79>>
FBAR == <<66, 65, 82>>
FField == <<70, 105, 101, 108, 100>>
FX == <<88>>
FPriv == <<112, 114, 105, 118>>

\* string contents: "", "1", "5", "a"
SEmpty == <<>>
SOne == <<49>>
SFive == <<53>>
SA == <<97>>

BoolV(x) == [ZeroData EXCEPT !.kind = "Bool", !.typ = TBool, !.b = x]
IntV(n) == [ZeroData EXCEPT !.kind = "Int", !.typ = TInt, !.n = n]
Int8V(n) == [ZeroData EXCEPT !.kind = "Int8", !.typ = TInt8, !.n = n]
UintV(n) == [ZeroData EXCEPT !.kind = "Uint", !.typ = TUint, !.n = n]
FloatV(n) == [ZeroData EXCEPT !.kind = "Float64", !.typ = TFloat64, !.n = n]
NaNV == [ZeroData EXCEPT !.kind = "Float64", !.typ = TFloat64, !.nan = TRUE]
ComplexV(re, im) ==
    [ZeroData EXCEPT !.kind = "Complex128", !.typ = TComplex128, !.n = re, !.im = im]
StringV(s) == [ZeroData EXCEPT !.kind = "String", !.typ = TString, !.str = s]
SliceV(t, es) == [ZeroData EXCEPT !.kind = "Slice", !.typ = TSlice(t), !.elems = es]
ArrayV(t, es) ==
    [ZeroData EXCEPT !.kind = "Array", !.typ = TArray(Len(es), t), !.elems = es]
MapV(kt, vt, es) == [ZeroData EXCEPT !.kind = "Map", !.typ = TMap(kt, vt), !.ents = es]
StructV(t, fs) == [ZeroData EXCEPT !.kind = "Struct", !.typ = t, !.flds = fs]
\* a non-nil pointer to d, and the nil pointer of type *t
PtrV(d) ==
    [ZeroData EXCEPT !.kind = "Ptr", !.typ = TPtr(d.typ), !.elems = <<d>>, !.n = 1 + d.n]
NilPtr(t) == [ZeroData EXCEPT !.kind = "Ptr", !.typ = TPtr(t)]
\* an interface{} slot holding d, and the nil interface{}
IfaceV(d) == [ZeroData EXCEPT !.kind = "Interface", !.typ = TInterface, !.elems = <<d>>]
NilIface == [ZeroData EXCEPT !.kind = "Interface", !.typ = TInterface]
ChanV(p) == [ZeroData EXCEPT !.kind = "Chan", !.typ = TChan, !.n = p]
FuncV(p) == [ZeroData EXCEPT !.kind = "Func", !.typ = TFunc, !.n = p]
UnsafeV(p) == [ZeroData EXCEPT !.kind = "UnsafePointer", !.typ = TUnsafe, !.n = p]

Fld(name, val) == [name |-> name, val |-> val]
Ent(k, v) == [k |-> k, v |-> v]
StructA(name, age, hidden) ==
    StructV(TA, <<Fld(FName, StringV(name)), Fld(FAge, IntV(age)),
                  Fld(FHidden, BoolV(hidden))>>)
StructB(age, name) ==
    StructV(TB, <<Fld(FAge, IntV(age)), Fld(FName, StringV(name))>>)
StructC(foo, bar) ==
    StructV(TC, <<Fld(FFOO, StringV(foo)), Fld(FBAR, IntV(bar))>>)
StructD(x) == StructV(TD, <<Fld(FField, x)>>)
StructE(x) == StructV(TE, <<Fld(FX, IntV(x))>>)

RECURSIVE SeqsUpTo(_, _)
\* the sequences over S of length at most k
SeqsUpTo(S, k) ==
    IF k = 0 THEN {<<>>}
    ELSE LET shorter == SeqsUpTo(S, k - 1)
         IN  shorter \cup {Append(s, x) : s \in {t \in shorter : Len(t) = k - 1}, x \in S}

RECURSIVE PtrChain(_, _)
\* k levels of non-nil pointers to d
PtrChain(d, k) == IF k = 0 THEN d ELSE PtrV(PtrChain(d, k - 1))

Scalars ==
    {BoolV(x) : x \in BOOLEAN} \cup {IntV(n) : n \in 0..MaxInt}
    \cup {Int8V(1), UintV(0), UintV(1), FloatV(1), FloatV(2), NaNV,
          ComplexV(3, 4), ComplexV(3, 5),
          StringV(SEmpty), StringV(SOne), StringV(SFive), StringV(SA)}

IntSeqs == SeqsUpTo({IntV(e) : e \in 0..MaxElem}, MaxLen)

Sequences ==
    {SliceV(TInt, s) : s \in IntSeqs} \cup {ArrayV(TInt, s) : s \in IntSeqs}
    \cup {SliceV(TPtr(TInt), <<p>>) : p \in {NilPtr(TInt), PtrV(IntV(0)), PtrV(IntV(1))}}
    \cup {SliceV(TInterface, <<i>>) : i \in {NilIface, IfaceV(IntV(1)), IfaceV(StringV(SOne))}}
    \cup {SliceV(TC, <<StructC(SA, n)>>) : n \in 1..2}
    \cup {ArrayV(TC, <<StructC(SA, n)>>) : n \in 1..2}

Maps ==
    {MapV(TString, TInt, es) :
        es \in {<<>>, <<Ent(StringV(SOne), IntV(0))>>, <<Ent(StringV(SOne), IntV(1))>>,
                <<Ent(StringV(SFive), IntV(0))>>,
                <<Ent(StringV(SOne), IntV(0)), Ent(StringV(SFive), IntV(1))>>,
                <<Ent(StringV(SFive), IntV(1)), Ent(StringV(SOne), IntV(0))>>}}
    \cup {MapV(TInt, TString, es) :
        es \in {<<Ent(IntV(0), StringV(SOne))>>, <<Ent(IntV(1), StringV(SOne))>>,
                <<Ent(IntV(0), StringV(SOne)), Ent(IntV(1), StringV(SFive))>>}}

Structs ==
    {StructA(SEmpty, 0, FALSE), StructA(SEmpty, 0, TRUE), StructA(SA, 1, FALSE),
     StructB(0, SEmpty), StructB(1, SA),
     StructC(SEmpty, 0), StructC(SA, 1), StructC(SA, 2),
     StructD(IfaceV(IntV(1))), StructD(IfaceV(StringV(SOne))),
     StructE(0), StructE(1)}

\* what the pointers of the model point to
Pointees ==
    {IntV(n) : n \in 0..MaxInt}
    \cup {BoolV(TRUE), StringV(SOne), StringV(SFive), IfaceV(IntV(1)),
          SliceV(TInt, <<IntV(0), IntV(1)>>),
          MapV(TString, TInt, <<Ent(StringV(SOne), IntV(0))>>),
          StructA(SEmpty, 0, FALSE), StructA(SEmpty, 0, TRUE),
          StructB(0, SEmpty), StructB(1, SA),
          StructC(SA, 1), StructC(SA, 2), StructE(0)}

Pointers ==
    {PtrChain(d, k) : d \in Pointees, k \in 1..MaxDepth}
    \cup {NilPtr(TInt), NilPtr(TString), NilPtr(TBool), NilPtr(TA), NilPtr(TPtr(TInt)),
          PtrV(NilPtr(TInt))}

Unsupported == {ChanV(1), ChanV(2), FuncV(1), UnsafeV(1), UnsafeV(2)}

\* integers below zero and of further widths: int(-1), int8(-1), int8(0),
\* uint8(0), uint8(2)
MoreIntegers ==
    {IntV(-1), Int8V(-1), Int8V(0),
     [UintV(0) EXCEPT !.kind = "Uint8", !.typ = TUint8],
     [UintV(2) EXCEPT !.kind = "Uint8", !.typ = TUint8]}

\* the operands of CompareInterfaces
Data == {ZeroData} \cup Scalars \cup Sequences \cup Maps \cup Structs \cup Pointers
        \cup Unsupported \cup MoreIntegers

\* the handles CompareValues is called with: reflect.ValueOf(x), and the
\* addressable reflect.ValueOf(&s).Elem() of a struct s
Operands == {ValueOf(d) : d \in Data} \cup {Elem(ValueOf(PtrV(s))) : s \in Structs}

\* the operands of the transitivity runs
TransOperands ==
    {ValueOf(d) : d \in Scalars}
    \cup {ValueOf(d) : d \in {NilPtr(TInt), NilPtr(TString), PtrV(IntV(0)), PtrV(IntV(1)),
                              PtrV(StringV(SOne)), PtrV(StringV(SFive)),
                              SliceV(TInt, <<>>), SliceV(TInt, <<IntV(0)>>),
                              SliceV(TInt, <<IntV(1)>>),
                              SliceV(TInt, <<IntV(0), IntV(1)>>)}}
    \cup {Elem(ValueOf(PtrV(s))) : s \in {StructC(SA, 1), StructC(SA, 2), StructE(0)}}

\* the values a private field is given
PrivateVals == {BoolV(FALSE), IntV(1)}

RECURSIVE AddPrivateData(_, _, _)
\* d, its struct (reached through any pointers) declared with one more field
\* named priv, first or last
AddPrivateData(d, pv, first) ==
    IF d.kind = "Ptr" /\ d.elems # <<>>
    THEN [d EXCEPT !.elems = <<AddPrivateData(d.elems[1], pv, first)>>]
    ELSE IF d.kind = "Struct"
    THEN [d EXCEPT !.flds = IF first THEN <<Fld(FPriv, pv)>> \o d.flds
                            ELSE Append(d.flds, Fld(FPriv, pv))]
    ELSE d

AddPrivate(h, pv, first) == [h EXCEPT !.d = AddPrivateData(h.d, pv, first)]

\* ------------------------------------------------------------ strings, strconv
RECURSIVE Split(_, _)
\* strings.Split(s, sep) for a one-byte sep: the parts between the separators,
\* one part more than there are separators
Split(s, sep) ==
    LET at == {i \in 1..Len(s) : s[i] = sep}
        i == CHOOSE j \in at : \A k \in at : j <= k
    IN  IF at = {} THEN <<s>>
        ELSE <<SubSeq(s, 1, i - 1)>> \o Split(SubSeq(s, i + 1, Len(s)), sep)

\* strings.TrimSpace, for ASCII text: "\t\n\v\f\r " are cut from both ends
TrimSpace(s) ==
    LET keep == {i \in 1..Len(s) : s[i] \notin {9, 10, 11, 12, 13, 32}}
        first == CHOOSE i \in keep : \A j \in keep : i <= j
        last == CHOOSE i \in keep : \A j \in keep : i >= j
    IN  IF keep = {} THEN <<>> ELSE SubSeq(s, first, last)

AllDigits(s) == \A i \in 1..Len(s) : s[i] \in 48..57

RECURSIVE Atoi(_)
\* the number a text of decimal digits denotes
Atoi(s) == IF s = <<>> THEN 0 ELSE 10 * Atoi(SubSeq(s, 1, Len(s) - 1)) + (s[Len(s)] - 48)

RECURSIVE TrimZeros(_)
\* s without its leading zeros
TrimZeros(s) == IF s # <<>> /\ Head(s) = 48 THEN TrimZeros(Tail(s)) ELSE s

\* the number s denotes is greater than the one limit denotes (digits only)
Exceeds(s, limit) ==
    LET d == TrimZeros(s)
    IN  Len(d) > Len(limit) \/ (Len(d) = Len(limit) /\ StringsCompare(d, limit) > 0)

\* strconv.ParseBool
ParseBool(s) ==
    IF s \in {<<49>>, <<116>>, <<84>>, <<84, 82, 85, 69>>, <<116, 114, 117, 101>>,
              <<84, 114, 117, 101>>}
    THEN [err |-> "", b |-> TRUE]
    ELSE IF s \in {<<48>>, <<102>>, <<70>>, <<70, 65, 76, 83, 69>>,
                   <<102, 97, 108, 115, 101>>, <<70, 97, 108, 115, 101>>}
    THEN [err |-> "", b |-> FALSE]
    ELSE [err |-> "strconv.ErrSyntax", b |-> FALSE]

\* strconv.ParseUint(s, 10, 64); the texts of the model that are in range have
\* at most 9 digits
ParseUint(s) ==
    IF s = <<>> \/ ~AllDigits(s) THEN [err |-> "strconv.ErrSyntax", n |-> 0]
    ELSE IF Exceeds(s, <<49, 56, 52, 52, 54, 55, 52, 52, 48, 55, 51, 55, 48, 57, 53, 53,
                         49, 54, 49, 53>>)
    THEN [err |-> "strconv.ErrRange", n |-> 0]
    ELSE [err |-> "", n |-> Atoi(s)]

\* strconv.ParseInt(s, 10, 64): an optional sign, then digits
ParseInt(s) ==
    LET signed == s # <<>> /\ s[1] \in {43, 45}
        neg == s # <<>> /\ s[1] = 45
        digits == IF signed THEN Tail(s) ELSE s
        max == <<57, 50, 50, 51, 51, 55, 50, 48, 51, 54, 56, 53, 52, 55, 55, 53, 56, 48>>
    IN  IF digits = <<>> \/ ~AllDigits(digits) THEN [err |-> "strconv.ErrSyntax", n |-> 0]
        ELSE IF Exceeds(digits, max \o (IF neg THEN <<56>> ELSE <<55>>))
        THEN [err |-> "strconv.ErrRange", n |-> 0]
        ELSE [err |-> "", n |-> IF neg THEN 0 - Atoi(digits) ELSE Atoi(digits)]

\* strconv.ParseFloat for the texts "nan" and [sign] digits [. digits]; the value
\* is n / 10^scale with the fraction's trailing zeros cut.  The texts of the model
\* hold no exponent, no hexadecimal mantissa, no underscore and no infinity.
ParseFloat(s) ==
    LET signed == s # <<>> /\ s[1] \in {43, 45}
        neg == s # <<>> /\ s[1] = 45
        parts == Split(IF signed THEN Tail(s) ELSE s, 46)
        ip == parts[1]
        fp == IF Len(parts) = 2 THEN parts[2] ELSE <<>>
        cut == {i \in 0..Len(fp) : \A j \in (i + 1)..Len(fp) : fp[j] = 48}
        scale == CHOOSE i \in cut : \A j \in cut : i <= j
        m == Atoi(ip \o SubSeq(fp, 1, scale))
        lower == [i \in 1..Len(s) |-> IF s[i] \in 65..90 THEN s[i] + 32 ELSE s[i]]
    IN  IF lower = <<110, 97, 110>> THEN [err |-> "", n |-> 0, scale |-> 0, nan |-> TRUE]
        ELSE IF Len(parts) > 2 \/ ~AllDigits(ip) \/ ~AllDigits(fp) \/ ip \o fp = <<>>
        THEN [err |-> "strconv.ErrSyntax", n |-> 0, scale |-> 0, nan |-> FALSE]
        ELSE [err |-> "", n |-> IF neg THEN 0 - m ELSE m, scale |-> scale, nan |-> FALSE]

\* strconv.ParseComplex for "N", "Ni", "N+Ni" and "N-Ni" with N a decimal integer,
\* in parentheses or not
ParseComplex(s) ==
    LET t == IF Len(s) >= 2 /\ s[1] = 40 /\ s[Len(s)] = 41 THEN SubSeq(s, 2, Len(s) - 1)
             ELSE s
        imag == t # <<>> /\ t[Len(t)] = 105
        body == IF imag THEN SubSeq(t, 1, Len(t) - 1) ELSE t
        signs == {i \in 2..Len(body) : body[i] \in {43, 45}}
        c == CHOOSE i \in signs : TRUE
        re == IF ~imag THEN ParseInt(body)
              ELSE IF signs = {} THEN [err |-> "", n |-> 0]
              ELSE ParseInt(SubSeq(body, 1, c - 1))
        im == IF ~imag THEN [err |-> "", n |-> 0]
              ELSE IF signs = {} THEN ParseInt(body)
              ELSE ParseInt(SubSeq(body, c, Len(body)))
    IN  IF Cardinality(signs) > 1 \/ re.err # "" \/ im.err # ""
        THEN [err |-> "strconv.ErrSyntax", re |-> 0, im |-> 0]
        ELSE [err |-> "", re |-> re.n, im |-> im.n]

\* time.Time.UnmarshalText for the RFC 3339 texts "YYYY-MM-DDThh:mm:ssZ": the date
\* and the time of day as numbers
ParseTime(s) ==
    LET num(i, j) == Atoi(SubSeq(s, i, j))
        shaped == /\ Len(s) = 20
                  /\ s[5] = 45 /\ s[8] = 45 /\ s[11] = 84 /\ s[14] = 58 /\ s[17] = 58
                  /\ s[20] = 90
                  /\ \A i \in (1..19) \ {5, 8, 11, 14, 17} : s[i] \in 48..57
    IN  IF shaped /\ num(6, 7) \in 1..12 /\ num(9, 10) \in 1..31 /\ num(12, 13) < 24
           /\ num(15, 16) < 60 /\ num(18, 19) < 60
        THEN [err |-> "", date |-> num(1, 4) * 10000 + num(6, 7) * 100 + num(9, 10),
              clock |-> num(12, 13) * 10000 + num(15, 16) * 100 + num(18, 19)]
        ELSE [err |-> "time.ParseError", date |-> 0, clock |-> 0]

\* ------------------------------------------------------------ types
\* A reflect.Type: its kind and the text of its name; an array's length; a map's
\* key type (key) and the element type of an array, slice, map or pointer (elem),
\* each a sequence of at most one type; a struct's fields [name, val] with val
\* the field's type; um: the pointer to the type has the method UnmarshalText.
Ty(kind, name) ==
    [kind |-> kind, name |-> name, len |-> 0, key |-> <<>>, elem |-> <<>>,
     flds |-> <<>>, um |-> FALSE]
TyPtr(t) == [Ty("Ptr", TPtr(t.name)) EXCEPT !.elem = <<t>>]
TySlice(t) == [Ty("Slice", TSlice(t.name)) EXCEPT !.elem = <<t>>]
TyArray(k, t) == [Ty("Array", TArray(k, t.name)) EXCEPT !.len = k, !.elem = <<t>>]
TyMap(kt, vt) == [Ty("Map", TMap(kt.name, vt.name)) EXCEPT !.key = <<kt>>, !.elem = <<vt>>]
\* time.Time, whose UnmarshalText has a pointer receiver
TTime == <<116, 105, 109, 101, 46, 84, 105, 109, 101>>
TyTime == [Ty("Struct", TTime) EXCEPT !.um = TRUE]

RECURSIVE Zero(_)
\* reflect.Zero(t): a nil slice, map, pointer or interface holds nothing
Zero(t) ==
    [ZeroData EXCEPT
        !.kind = t.kind, !.typ = t.name,
        !.elems = IF t.kind = "Array" THEN [i \in 1..t.len |-> Zero(t.elem[1])] ELSE <<>>,
        !.flds = [i \in 1..Len(t.flds) |-> Fld(t.flds[i].name, Zero(t.flds[i].val))]]

\* the bits of an integer kind, on a 64-bit platform
Bits(kind) ==
    IF kind \in {"Int8", "Uint8"} THEN 8
    ELSE IF kind \in {"Int16", "Uint16"} THEN 16
    ELSE IF kind \in {"Int32", "Uint32"} THEN 32
    ELSE 64

ConvertClamped(n, kind) ==
    LET w == Bits(kind)
        lo == IF kind \in IntKinds THEN 0 - 2 ^ (w - 1) ELSE 0
        hi == IF kind \in IntKinds THEN 2 ^ (w - 1) - 1 ELSE 2 ^ w - 1
    IN  IF w >= 32 THEN n ELSE IF n < lo THEN lo ELSE IF n > hi THEN hi ELSE n

\* Value.Convert of an int64 or uint64 to an integer kind: the low bits, as a
\* signed or an unsigned number; the numbers of the model fit 32 bits
Convert(n, kind) ==
    LET w == Bits(kind)
        low == n % (2 ^ w)
    IN  IF w >= 32 THEN n
        ELSE IF kind \in IntKinds /\ low >= 2 ^ (w - 1) THEN low - 2 ^ w
        ELSE low

\* ------------------------------------------------------------ memory
\* The converter writes through its handles, so its values live in a memory: a
\* sequence of cells, each holding a data record.  A pointer holds in n the
\* index of the cell it points to, 0 when nil.  A handle (reflect.Value) is the
\* type, the cell (at; 0 for the zero Value), the path of element indices from
\* the cell's record to the value, and whether the value can be set (flagAddr).
Ref(t, at, path, set) == [t |-> t, at |-> at, path |-> path, set |-> set]
ZeroValue == Ref(Ty("Invalid", <<>>), 0, <<>>, FALSE)
IsValid(h) == h.at # 0

RECURSIVE Get(_, _)
Get(d, path) == IF path = <<>> THEN d ELSE Get(d.elems[Head(path)], Tail(path))

RECURSIVE Put(_, _, _)
Put(d, path, x) ==
    IF path = <<>> THEN x
    ELSE [d EXCEPT !.elems[Head(path)] = Put(@, Tail(path), x)]

\* the value a handle refers to
Load(h, mem) == Get(mem[h.at], h.path)
\* memory after the value a handle refers to is overwritten
Store(h, x, mem) == [mem EXCEPT ![h.at] = Put(@, h.path, x)]

\* a pointer of type t to cell at
PtrTo(t, at) == [Zero(t) EXCEPT !.n = at]

\* reflect.Indirect(reflect.New(t)): a new zeroed cell and the settable handle of
\* its value
New(t, mem) == [h |-> Ref(t, Len(mem) + 1, <<>>, TRUE), mem |-> Append(mem, Zero(t))]

\* reflect.MakeSlice(t, k, k): the slice header is not settable, its elements are
MakeSlice(t, k, mem) ==
    [h |-> Ref(t, Len(mem) + 1, <<>>, FALSE),
     mem |-> Append(mem, [Zero(t) EXCEPT !.elems = [i \in 1..k |-> Zero(t.elem[1])]])]

\* Value.Index(i), i from 1: settable in a slice, and in a settable array
At(h, i) == Ref(h.t.elem[1], h.at, Append(h.path, i), h.t.kind = "Slice" \/ h.set)

\* reflect.Indirect: the pointee of a pointer, the zero Value for a nil pointer,
\* any other value itself
Indirect(h, mem) ==
    IF h.t.kind # "Ptr" THEN h
    ELSE IF Load(h, mem).n = 0 THEN ZeroValue
    ELSE Ref(h.t.elem[1], Load(h, mem).n, <<>>, TRUE)

\* Value.SetMapIndex on map data m: the entry of key k is replaced or added
SetMapIndex(m, k, v) ==
    LET has == {i \in 1..Len(m.ents) : m.ents[i].k = k}
    IN  IF has = {} THEN [m EXCEPT !.ents = Append(@, Ent(k, v))]
        ELSE [m EXCEPT !.ents = [i \in 1..Len(@) |-> IF i \in has THEN Ent(k, v) ELSE @[i]]]

\* ------------------------------------------------------------ StringToValue
\* A call's outcome: it returned err ("" for nil) or it panicked; mem is the
\* memory it leaves.
Ret(err, mem) == [panic |-> FALSE, err |-> err, mem |-> mem]
Crash(mem) == [panic |-> TRUE, err |-> "", mem |-> mem]
Failed(r) == r.panic \/ r.err # ""

\* out.Set(x): panics unless out can be set
Set(out, x, mem) == IF out.set THEN Ret("", Store(out, x, mem)) ELSE Crash(mem)

\* out.Interface().(encoding.TextUnmarshaler) for a valid out of type t: the
\* method set of t holds UnmarshalText; a nil interface holds no value
Implements(t) == t.kind = "Ptr" /\ t.elem[1].um

\* (*time.Time).UnmarshalText: *t, err = parse(data); a nil receiver panics
UnmarshalText(in, out, mem) ==
    LET t == Load(out, mem)
        p == ParseTime(in)
        parsed == [Zero(out.t.elem[1]) EXCEPT !.n = p.date, !.im = p.clock]
    IN  IF t.n = 0 THEN Crash(mem)
        ELSE Ret(p.err, [mem EXCEPT ![t.n] = parsed])

RECURSIVE StringToValue(_, _, _)
RECURSIVE ArrayLoop(_, _, _, _, _)
RECURSIVE SliceLoop(_, _, _, _)
RECURSIVE MapLoop(_, _, _, _)
RECURSIVE ArrayLoopUntrimmed(_, _, _, _, _)
RECURSIVE SliceLoopTrimmed(_, _, _, _)
RECURSIVE MapLoopSkipping(_, _, _, _)

\* out.Set(reflect.ValueOf(b)): a bool is assignable to the type bool only
StringToBoolValue(in, out, mem) ==
    LET p == ParseBool(in)
    IN  IF p.err # "" THEN Ret(p.err, mem)
        ELSE IF out.t.name # TBool THEN Crash(mem)
        ELSE Set(out, [Zero(out.t) EXCEPT !.b = p.b], mem)

StringToIntValue(in, out, mem) ==
    LET p == ParseInt(in)
    IN  IF p.err # "" THEN Ret(p.err, mem)
        ELSE Set(out, [Zero(out.t) EXCEPT !.n = Convert(p.n, out.t.kind)], mem)

StringToUintValue(in, out, mem) ==
    LET p == ParseUint(in)
    IN  IF p.err # "" THEN Ret(p.err, mem)
        ELSE Set(out, [Zero(out.t) EXCEPT !.n = Convert(p.n, out.t.kind)], mem)

\* StringToFloat32Value and StringToFloat64Value
StringToFloatValue(in, out, mem) ==
    LET p == ParseFloat(in)
    IN  IF p.err # "" THEN Ret(p.err, mem)
        ELSE Set(out, [Zero(out.t) EXCEPT !.n = p.n, !.scale = p.scale, !.nan = p.nan], mem)

\* StringToComplex64Value and StringToComplex128Value
StringToComplexValue(in, out, mem) ==
    LET p == ParseComplex(in)
    IN  IF p.err # "" THEN Ret(p.err, mem)
        ELSE Set(out, [Zero(out.t) EXCEPT !.n = p.re, !.im = p.im], mem)

StringToStringValueTrimmed(in, out, mem) ==
    IF out.t.name # TString THEN Crash(mem)
    ELSE Set(out, [Zero(out.t) EXCEPT !.str = TrimSpace(in)], mem)

\* out.Set(reflect.ValueOf(in)): a string is assignable to the type string only
StringToStringValue(in, out, mem) ==
    IF out.t.name # TString THEN Crash(mem)
    ELSE Set(out, [Zero(out.t) EXCEPT !.str = in], mem)

ArrayLoopUntrimmed(a, i, l, v, mem) ==
    IF i > l \/ i > Len(a) THEN Ret("", mem)
    ELSE LET r == StringToValue(a[i], At(v, i), mem)
         IN  IF Failed(r) THEN r ELSE ArrayLoopUntrimmed(a, i + 1, l, v, r.mem)

\* the loop of StringToArrayValue from index i: a[i], trimmed, into v.Index(i)
ArrayLoop(a, i, l, v, mem) ==
    IF i > l \/ i > Len(a) THEN Ret("", mem)
    ELSE LET r == StringToValue(TrimSpace(a[i]), At(v, i), mem)
         IN  IF Failed(r) THEN r ELSE ArrayLoop(a, i + 1, l, v, r.mem)

StringToArrayValue(in, out, mem) ==
    LET v == New(out.t, mem)
        r == ArrayLoop(Split(in, 44), 1, out.t.len, v.h, v.mem)
    IN  IF Failed(r) THEN r ELSE Set(out, Load(v.h, r.mem), r.mem)

SliceLoopTrimmed(a, i, parsedval, mem) ==
    IF i > Len(a) THEN Ret("", mem)
    ELSE LET r == StringToValue(TrimSpace(a[i]), At(parsedval, i), mem)
         IN  IF Failed(r) THEN r ELSE SliceLoopTrimmed(a, i + 1, parsedval, r.mem)

\* the loop of StringToSliceValue from index i: a[i] into parsedval.Index(i)
SliceLoop(a, i, parsedval, mem) ==
    IF i > Len(a) THEN Ret("", mem)
    ELSE LET r == StringToValue(a[i], At(parsedval, i), mem)
         IN  IF Failed(r) THEN r ELSE SliceLoop(a, i + 1, parsedval, r.mem)

StringToSliceValuePadded(in, out, mem) ==
    LET a == Split(in, 44)
        old == Len(Load(out, mem).elems)
        parsedval == MakeSlice(TySlice(out.t.elem[1]),
                               IF old > Len(a) THEN old ELSE Len(a), mem)
        r == SliceLoop(a, 1, parsedval.h, parsedval.mem)
    IN  IF Failed(r) THEN r
        ELSE Set(out, [Load(parsedval.h, r.mem) EXCEPT !.typ = out.t.name], r.mem)

StringToSliceValue(in, out, mem) ==
    LET a == Split(in, 44)
        parsedval == MakeSlice(TySlice(out.t.elem[1]), Len(a), mem)
        r == SliceLoop(a, 1, parsedval.h, parsedval.mem)
    IN  IF Failed(r) THEN r
        ELSE Set(out, [Load(parsedval.h, r.mem) EXCEPT !.typ = out.t.name], r.mem)

MapLoopSkipping(a, i, parsedval, mem) ==
    IF i > Len(a) THEN Ret("", mem)
    ELSE LET pair == Split(a[i], 61)
             key == New(parsedval.t.key[1], mem)
             kr == StringToValue(pair[1], key.h, key.mem)
             val == New(parsedval.t.elem[1], kr.mem)
             vr == StringToValue(pair[2], val.h, val.mem)
             set == SetMapIndex(Load(parsedval, vr.mem), Load(key.h, vr.mem),
                                Load(val.h, vr.mem))
         IN  IF Len(pair) # 2 THEN MapLoopSkipping(a, i + 1, parsedval, mem)
             ELSE IF Failed(kr) THEN kr
             ELSE IF Failed(vr) THEN vr
             ELSE MapLoopSkipping(a, i + 1, parsedval, Store(parsedval, set, vr.mem))

\* the loop of StringToMapValue from entry i of a
MapLoop(a, i, parsedval, mem) ==
    IF i > Len(a) THEN Ret("", mem)
    ELSE LET pair == Split(a[i], 61)
             key == New(parsedval.t.key[1], mem)
             kr == StringToValue(pair[1], key.h, key.mem)
             val == New(parsedval.t.elem[1], kr.mem)
             vr == StringToValue(pair[2], val.h, val.mem)
             set == SetMapIndex(Load(parsedval, vr.mem), Load(key.h, vr.mem),
                                Load(val.h, vr.mem))
         IN  IF Len(pair) # 2 THEN Ret("ErrParse", mem)
             ELSE IF Failed(kr) THEN kr
             ELSE IF Failed(vr) THEN vr
             ELSE MapLoop(a, i + 1, parsedval, Store(parsedval, set, vr.mem))

StringToMapValueMerging(in, out, mem) ==
    LET parsedval == New(TyMap(out.t.key[1], out.t.elem[1]), mem)
        r == MapLoop(Split(in, 44), 1, parsedval.h,
                     Store(parsedval.h, Load(out, mem), parsedval.mem))
    IN  IF Failed(r) THEN r
        ELSE Set(out, [Load(parsedval.h, r.mem) EXCEPT !.typ = out.t.name], r.mem)

StringToMapValue(in, out, mem) ==
    LET parsedval == New(TyMap(out.t.key[1], out.t.elem[1]), mem)
        r == MapLoop(Split(in, 44), 1, parsedval.h, parsedval.mem)
    IN  IF Failed(r) THEN r
        ELSE Set(out, [Load(parsedval.h, r.mem) EXCEPT !.typ = out.t.name], r.mem)

StringToStructValueSilent(in, out, mem) == Ret("", mem)

StringToStructValue(in, out, mem) == Ret("ErrNotImplemented", mem)

StringToPointerValueEager(in, out, mem) ==
    LET nv == New(out.t.elem[1], mem)
        s == Set(out, PtrTo(out.t, nv.h.at), nv.mem)
    IN  IF s.panic THEN s ELSE StringToValue(in, nv.h, s.mem)

StringToPointerValueInPlace(in, out, mem) ==
    LET nv == New(out.t.elem[1], mem)
        r == StringToValue(in, nv.h, nv.mem)
    IN  IF Load(out, mem).n # 0 THEN StringToValue(in, Indirect(out, mem), mem)
        ELSE IF Failed(r) THEN r
        ELSE Set(out, PtrTo(out.t, nv.h.at), r.mem)

StringToPointerValue(in, out, mem) ==
    LET nv == New(out.t.elem[1], mem)
        r == StringToValue(in, nv.h, nv.mem)
    IN  IF Failed(r) THEN r ELSE Set(out, PtrTo(out.t, nv.h.at), r.mem)

\* out.Interface() panics for the zero Value, so the IsValid test that follows
\* it is never reached with an invalid out
StringToValue(in, out, mem) ==
    IF ~IsValid(out) THEN Crash(mem)
    ELSE IF Implements(out.t) THEN UnmarshalText(in, out, mem)
    ELSE IF ~IsValid(out) THEN Ret("ErrInvalidParam", mem)
    ELSE IF out.t.kind = "Bool" THEN StringToBoolValue(in, out, mem)
    ELSE IF out.t.kind \in IntKinds THEN StringToIntValue(in, out, mem)
    ELSE IF out.t.kind \in UintKinds THEN StringToUintValue(in, out, mem)
    ELSE IF out.t.kind \in FloatKinds THEN StringToFloatValue(in, out, mem)
    ELSE IF out.t.kind \in ComplexKinds THEN StringToComplexValue(in, out, mem)
    ELSE IF out.t.kind = "String" THEN StringToStringValue(in, out, mem)
    ELSE IF out.t.kind = "Array" THEN StringToArrayValue(in, out, mem)
    ELSE IF out.t.kind = "Slice" THEN StringToSliceValue(in, out, mem)
    ELSE IF out.t.kind = "Map" THEN StringToMapValue(in, out, mem)
    ELSE IF out.t.kind = "Struct" THEN StringToStructValue(in, out, mem)
    ELSE IF out.t.kind = "Ptr" THEN StringToPointerValue(in, out, mem)
    ELSE Ret("ErrUnsupported", mem)

\* StringToInterface with out an interface that is nil (the zero Value) or holds
\* the value the handle out refers to
StringToInterface(in, out, mem) ==
    IF ~IsValid(out) THEN Ret("ErrInvalidParam", mem)
    ELSE StringToValue(in, Indirect(out, mem), mem)

\* ------------------------------------------------------------ converter inputs
RECURSIVE Join(_)
\* strings.Join(parts, ",")
Join(parts) ==
    IF Len(parts) = 1 THEN parts[1] ELSE parts[1] \o <<44>> \o Join(Tail(parts))

\* element texts: "", "9", " 8", "x"
ElemTexts == {<<>>, <<57>>, <<32, 56>>, <<120>>}
\* map entry texts: "a=1", "a=2", "b=x", "c", "b=1=2"
PairTexts == {<<97, 61, 49>>, <<97, 61, 50>>, <<98, 61, 120>>, <<99>>, <<98, 61, 49, 61, 50>>}

\* strconv.FormatInt(n, 10): the canonical text of an integer
FormatInt(n) == IF n < 0 THEN <<45>> \o Digits(0 - n) ELSE Digits(n)

\* the integers whose canonical text is an input: the tests' -42 and 1337, and
\* the numbers at the ends of the 8-bit ranges
Ints == {-129, -128, -42, -1, 0, 127, 128, 255, 256, 300, 1337}

\* further texts: the integers' texts, "false", "+5", "-0", "007",
\* "18446744073709551616" (2^64), "red, green", "1, 2", "a= 1" and " a=1"
MoreTexts ==
    {FormatInt(v) : v \in Ints} \cup
    {<<102, 97, 108, 115, 101>>, <<43, 53>>, <<45, 48>>, <<48, 48, 55>>,
     <<49, 56, 52, 52, 54, 55, 52, 52, 48, 55, 51, 55, 48, 57, 53, 53, 49, 54, 49, 54>>,
     <<114, 101, 100, 44, 32, 103, 114, 101, 101, 110>>, <<49, 44, 32, 50>>,
     <<97, 61, 32, 49>>, <<32, 97, 61, 49>>}

\* the input texts: lists of up to MaxParts elements or entries, the further texts,
\* and "69", "true", "9,8,7,6,5", "one,two,three", "a=1,b=2" and
\* "2020-01-02T03:04:05Z"
Texts ==
    {Join(p) : p \in SeqsUpTo(ElemTexts, MaxParts) \ {<<>>}}
    \cup {Join(p) : p \in SeqsUpTo(PairTexts, MaxParts) \ {<<>>}}
    \cup MoreTexts
    \cup {<<54, 57>>, <<116, 114, 117, 101>>,
          <<57, 44, 56, 44, 55, 44, 54, 44, 53>>,
          <<111, 110, 101, 44, 116, 119, 111, 44, 116, 104, 114, 101, 101>>,
          <<97, 61, 49, 44, 98, 61, 50>>,
          <<50, 48, 50, 48, 45, 48, 49, 45, 48, 50, 84, 48, 51, 58, 48, 52, 58, 48, 53, 90>>}

\* The target variables: the variable's type t and a memory whose cell 1 is the
\* variable, the cells after it what its pointers lead to.
Targets ==
    LET bool == Ty("Bool", TBool)
        int == Ty("Int", TInt)
        string == Ty("String", TString)
        struct == [Ty("Struct", TE) EXCEPT !.flds = <<Fld(FX, int)>>]
        var(t, d) == [t |-> t, mem |-> <<d>>]
        ones(k) == [i \in 1..k |-> IntV(1)]
    IN  {var(bool, BoolV(FALSE)), var(int, IntV(1)), var(Ty("Int8", TInt8), Int8V(1)),
         var(Ty("Uint", TUint), UintV(1)), var(Ty("Float64", TFloat64), FloatV(1)),
         var(Ty("Complex128", TComplex128), ComplexV(3, 4)), var(string, StringV(SA)),
         var(TyArray(5, int), ArrayV(TInt, [i \in 1..5 |-> IntV(i - 1)])),
         var(TyArray(2, string), ArrayV(TString, <<StringV(SA), StringV(SA)>>)),
         var(TySlice(int), SliceV(TInt, <<>>)), var(TySlice(int), SliceV(TInt, ones(3))),
         var(TySlice(string), SliceV(TString, <<StringV(SA)>>)),
         var(TyMap(string, string), MapV(TString, TString, <<>>)),
         var(TyMap(string, string),
             MapV(TString, TString, <<Ent(StringV(SA), StringV(SFive)),
                                      Ent(StringV(SOne), StringV(SFive))>>)),
         var(TyMap(string, int), MapV(TString, TInt, <<Ent(StringV(SOne), IntV(0))>>)),
         var(TyMap(int, string), MapV(TInt, TString, <<Ent(IntV(0), StringV(SOne))>>)),
         var(TyPtr(int), Zero(TyPtr(int))),
         [t |-> TyPtr(int), mem |-> <<PtrTo(TyPtr(int), 2), IntV(1)>>],
         [t |-> TyPtr(TyPtr(int)),
          mem |-> <<PtrTo(TyPtr(TyPtr(int)), 2), PtrTo(TyPtr(int), 3), IntV(1)>>],
         var(TyPtr(TyPtr(TyPtr(int))), Zero(TyPtr(TyPtr(TyPtr(int))))),
         var(TySlice(TyPtr(int)), Zero(TySlice(TyPtr(int)))),
         var(TyArray(1, TySlice(int)), Zero(TyArray(1, TySlice(int)))),
         var(TyTime, Zero(TyTime)), var(TyPtr(TyTime), Zero(TyPtr(TyTime))),
         [t |-> TyPtr(TyTime), mem |-> <<PtrTo(TyPtr(TyTime), 2), Zero(TyTime)>>],
         var(TySlice(TyTime), Zero(TySlice(TyTime))),
         var(TyPtr(TyPtr(TyTime)), Zero(TyPtr(TyPtr(TyTime)))),
         var(struct, StructE(1)), var(Ty("Chan", TChan), ChanV(1)),
         var(Ty("Interface", TInterface), NilIface),
         var(Ty("Uint8", TUint8), [Zero(Ty("Uint8", TUint8)) EXCEPT !.n = 1]),
         var(Ty("Func", TFunc), FuncV(1)), var(Ty("UnsafePointer", TUnsafe), UnsafeV(1)),
         var(TySlice(struct), SliceV(TE, <<StructE(1)>>)),
         var(TyArray(1, Ty("Chan", TChan)), ArrayV(TChan, <<ChanV(1)>>)),
         var(TyMap(string, Ty("Func", TFunc)),
             MapV(TString, TFunc, <<Ent(StringV(SA), FuncV(1))>>)),
         var(TyMap(string, Ty("Interface", TInterface)),
             MapV(TString, TInterface, <<Ent(StringV(SA), NilIface)>>)),
         [t |-> TyPtr(struct), mem |-> <<PtrTo(TyPtr(struct), 2), StructE(1)>>],
         var(TyPtr(Ty("UnsafePointer", TUnsafe)), Zero(TyPtr(Ty("UnsafePointer", TUnsafe))))}
        \cup {var(TyArray(k, int), ArrayV(TInt, ones(k))) : k \in 0..MaxLen}

\* The numbers of the model fit 32 bits: a text of more than 9 digits goes to the
\* integer targets, where its range error is decided on the text, and not to the
\* floating-point and complex ones.
Fits(text, t) ==
    (Len(text) > 9 /\ AllDigits(text)) => t.kind \notin FloatKinds \cup ComplexKinds

\* How the variable in cell 1, of type t, is handed to the converter:
\*   "elem"    reflect.Indirect(reflect.ValueOf(&v)), the settable variable
\*   "addr"    &v, or reflect.ValueOf(&v)
\*   "nilptr"  (*T)(nil), or reflect.ValueOf((*T)(nil))
\*   "copy"    v, or reflect.ValueOf(v)
\*   "none"    nil, or the zero reflect.Value
\* An interface's content and what reflect.ValueOf holds are a cell of their own, and
\* cannot be set.  A variable of interface type holds nil in the model, so its copy
\* is the nil interface: out == nil, and reflect.ValueOf gives the zero Value.
Arg(how, t, mem) ==
    LET boxed(bt, d) == [h |-> Ref(bt, Len(mem) + 1, <<>>, FALSE), mem |-> Append(mem, d)]
    IN  IF how = "elem" THEN [h |-> Ref(t, 1, <<>>, TRUE), mem |-> mem]
        ELSE IF how = "addr" THEN boxed(TyPtr(t), PtrTo(TyPtr(t), 1))
        ELSE IF how = "nilptr" THEN boxed(TyPtr(t), Zero(TyPtr(t)))
        ELSE IF how = "copy" /\ t.kind # "Interface" THEN boxed(t, mem[1])
        ELSE [h |-> ZeroValue, mem |-> mem]

\* ------------------------------------------------------------ struct helpers
\* StructPartialEqual, LazyStructCopy and FilterStruct take interface{}
\* arguments: a data record, ZeroData for nil, a pointer for &v.

\* reflect.Indirect(reflect.ValueOf(x)): the addressable pointee of a pointer,
\* the zero Value for nil and for a nil pointer
IndirectValueOf(x) == IF x.kind = "Ptr" THEN Elem(ValueOf(x)) ELSE ValueOf(x)

\* true as soon as y has a field of the name of a field of x
StructPartialEqual(x, y) ==
    LET xv == IndirectValueOf(x)
        yv == IndirectValueOf(y)
    IN  IF Kind(xv) # "Struct" \/ Kind(yv) # "Struct" THEN FALSE
        ELSE \E i \in 1..Len(xv.d.flds) :
                Kind(FieldByName(yv, xv.d.flds[i].name)) # "Invalid"

RECURSIVE CopyLoop(_, _, _)
\* the loop of LazyStructCopy from field i of srcv: whether it panicked, and
\* dstv's data when it ended.  tgt.Set panics unless tgt is addressable and
\* exported and the value's type is tgt's type.
CopyLoop(srcv, dstv, i) ==
    IF i > Len(srcv.d.flds) THEN [panic |-> FALSE, d |-> dstv.d]
    ELSE LET name == srcv.d.flds[i].name
             val == srcv.d.flds[i].val
             tgt == FieldByName(dstv, name)
             j == CHOOSE k \in 1..Len(dstv.d.flds) : dstv.d.flds[k].name = name
         IN  IF Kind(tgt) = "Invalid" THEN CopyLoop(srcv, dstv, i + 1)
             ELSE IF Kind(tgt) # val.kind THEN CopyLoop(srcv, dstv, i + 1)
             ELSE IF name = <<95>> THEN CopyLoop(srcv, dstv, i + 1)
             ELSE IF name[1] >= 97 /\ name[1] <= 122 THEN CopyLoop(srcv, dstv, i + 1)
             ELSE IF ~tgt.addr \/ ~IsExported(name) \/ tgt.d.typ # val.typ
             THEN [panic |-> TRUE, d |-> dstv.d]
             ELSE CopyLoop(srcv, [dstv EXCEPT !.d.flds[j].val = val], i + 1)

\* the outcome of LazyStructCopy: panic, the error returned ("" for nil) and
\* the dst argument afterwards
LazyStructCopy(src, dst) ==
    LET srcv == IndirectValueOf(src)
        dstv == IndirectValueOf(dst)
        r == CopyLoop(srcv, dstv, 1)
    IN  IF Kind(srcv) # "Struct" \/ Kind(dstv) # "Struct"
        THEN [panic |-> FALSE, err |-> "ErrInvalidParam", dst |-> dst]
        ELSE [panic |-> r.panic, err |-> "",
              dst |-> IF dst.kind = "Ptr" THEN [dst EXCEPT !.elems = <<r.d>>] ELSE dst]

RECURSIVE ZeroOf(_)
\* reflect.Zero of the type of d
ZeroOf(d) ==
    [ZeroData EXCEPT
        !.kind = d.kind, !.typ = d.typ,
        !.elems = IF d.kind = "Array" THEN [i \in 1..Len(d.elems) |-> ZeroOf(d.elems[i])]
                  ELSE <<>>,
        !.flds = [i \in 1..Len(d.flds) |-> Fld(d.flds[i].name, ZeroOf(d.flds[i].val))]]

\* sort.SearchStrings(a, x): the first index (from 1) whose string is >= x,
\* Len(a) + 1 if there is none
SearchStrings(a, x) ==
    LET ge == {i \in 1..Len(a) : StringsCompare(a[i], x) >= 0}
    IN  IF ge = {} THEN Len(a) + 1 ELSE CHOOSE i \in ge : \A j \in ge : i <= j

RECURSIVE TStructOf(_)
\* the name of the type reflect.StructOf(fields) makes: "struct { N T; ... }"
TStructOf(fields) ==
    IF fields = <<>> THEN <<115, 116, 114, 117, 99, 116, 32, 123, 125>>
    ELSE SubSeq(TStructOf(SubSeq(fields, 1, Len(fields) - 1)), 1,
                Len(TStructOf(SubSeq(fields, 1, Len(fields) - 1))) - 1)
         \o <<32>> \o fields[Len(fields)].name \o <<32>> \o fields[Len(fields)].val.typ
         \o <<59, 125>>

\* FilterStruct: nil (ZeroData) or the pointer reflect.New(structType) to a
\* zero struct of the fields that pass CanSet and are not in the sorted filter
FilterStruct(in, filter) ==
    LET v == IndirectValueOf(in)
        sorted == SortNames(filter)
        keep(i) ==
            /\ FieldCanSet(v, i)
            /\ LET pos == SearchStrings(sorted, v.d.flds[i].name)
               IN  ~(pos < Len(sorted) + 1 /\ sorted[pos] = v.d.flds[i].name)
        idx == SelectSeq([i \in 1..Len(v.d.flds) |-> i], keep)
        fields == [i \in 1..Len(idx) |-> v.d.flds[idx[i]]]
        zero == [i \in 1..Len(fields) |-> Fld(fields[i].name, ZeroOf(fields[i].val))]
    IN  IF Kind(v) = "Invalid" THEN ZeroData
        ELSE IF Kind(v) # "Struct" THEN ZeroData
        ELSE PtrV(StructV(TStructOf(fields), zero))

\* ------------------------------------------------------------ struct inputs
TF == <<114, 101, 102, 108, 101, 99, 116, 101, 120, 46, 70>>
TG == <<114, 101, 102, 108, 101, 99, 116, 101, 120, 46, 71>>
\* F{X float64} and G{Field []string}
StructF(x) == StructV(TF, <<Fld(FX, FloatV(x))>>)
StructG(s) == StructV(TG, <<Fld(FField, SliceV(TString, <<StringV(s)>>))>>)

\* the structs: A{Name string; Age int; hidden bool}, B{Age int; Name string},
\* C{FOO string; BAR int}, D{Field []int}, E{X int}, F and G
StructValues ==
    {StructA(SA, v, TRUE) : v \in 0..MaxInt} \cup {StructB(v, SFive) : v \in 0..MaxInt}
    \cup {StructC(SOne, 1), StructD(SliceV(TInt, <<IntV(1)>>)), StructE(1),
          StructF(2), StructG(SA)}

\* the arguments: nil, an int, a struct, a pointer to a struct, a nil pointer
\* and a pointer to a pointer to a struct
StructArgs ==
    {ZeroData, IntV(1), NilPtr(TA), PtrV(PtrV(StructE(1)))}
    \cup StructValues \cup {PtrV(s) : s \in StructValues}

\* the filters of names
Filters == SeqsUpTo({FName, FAge, FHidden, FX}, MaxLen)

\* ------------------------------------------------------------ the calls
VARIABLES
    a, b, c,        \* the operands
    pc,             \* the last call made
    rab, rba,       \* CompareValues(a, b), CompareValues(b, a)
    rbase,          \* CompareValues of the dereferenced a and b
    ap, bp,         \* a and b with a private field added to their struct
    rpa, rpb,       \* CompareValues(ap, b), CompareValues(a, bp)
    rbc, rac        \* CompareValues(b, c), CompareValues(a, c)

cmpVars == <<a, b, c, rab, rba, rbase, ap, bp, rpa, rpb, rbc, rac>>

VARIABLES
    in,             \* the text to convert
    tgt, mem,       \* the target variable's type, and memory before the first call
    fn, how, out,   \* the function called, how the variable is passed, the handle
    res,            \* the outcome of the call
    res2,           \* the outcome of the same call made once more
    resz,           \* the outcome of the call on a zero-valued variable
    resb            \* the outcome of the call with the text in square brackets

convVars == <<in, tgt, mem, fn, how, out, res, res2, resz, resb>>

VARIABLES
    src, dst,       \* the arguments x and y, src and dst; src is FilterStruct's in
    filter,         \* the names given to FilterStruct
    was,            \* dst before LazyStructCopy
    rpe,            \* StructPartialEqual(src, dst)
    rlc,            \* the outcome of LazyStructCopy(src, dst)
    rfs             \* FilterStruct(src, filter...)

structVars == <<src, dst, filter, was, rpe, rlc, rfs>>

vars == <<a, b, c, pc, rab, rba, rbase, ap, bp, rpa, rpb, rbc, rac,
          in, tgt, mem, fn, how, out, res, res2, resz, resb,
          src, dst, filter, was, rpe, rlc, rfs>>

\* no struct helper is called
NoStructCall ==
    /\ src = ZeroData /\ dst = ZeroData /\ filter = <<>> /\ was = ZeroData
    /\ rpe = FALSE /\ rlc = [panic |-> FALSE, err |-> "", dst |-> ZeroData]
    /\ rfs = ZeroData

\* no conversion is made
NoConversion ==
    /\ in = <<>> /\ tgt = ZeroValue.t /\ mem = <<>>
    /\ fn = "" /\ how = "" /\ out = ZeroValue
    /\ res = Ret("", <<>>) /\ res2 = Ret("", <<>>)
    /\ resz = Ret("", <<>>) /\ resb = Ret("", <<>>)

NoResults ==
    /\ rab = R(0) /\ rba = R(0) /\ rbase = R(0)
    /\ rpa = R(0) /\ rpb = R(0) /\ rbc = R(0) /\ rac = R(0)

Init ==
    /\ a \in Operands /\ b \in Operands /\ c = InvalidValue
    /\ ap = a /\ bp = b
    /\ pc = "start"
    /\ NoResults
    /\ NoConversion
    /\ NoStructCall

InitTrans ==
    /\ a \in TransOperands /\ b \in TransOperands /\ c \in TransOperands
    /\ ap = a /\ bp = b
    /\ pc = "start"
    /\ NoResults
    /\ NoConversion
    /\ NoStructCall

CallAB ==
    /\ pc = "start"
    /\ rab' = CompareValues(a, b)
    /\ pc' = "ab"
    /\ UNCHANGED <<a, b, c, rba, rbase, ap, bp, rpa, rpb, rbc, rac>>
    /\ UNCHANGED convVars
    /\ UNCHANGED structVars

CallBA ==
    /\ pc = "ab"
    /\ rba' = CompareValues(b, a)
    /\ pc' = "ba"
    /\ UNCHANGED <<a, b, c, rab, rbase, ap, bp, rpa, rpb, rbc, rac>>
    /\ UNCHANGED convVars
    /\ UNCHANGED structVars

CallBase ==
    /\ pc = "ba"
    /\ rbase' = CompareValues(Deref(a), Deref(b))
    /\ pc' = "base"
    /\ UNCHANGED <<a, b, c, rab, rba, ap, bp, rpa, rpb, rbc, rac>>
    /\ UNCHANGED convVars
    /\ UNCHANGED structVars

CallPrivate ==
    /\ pc = "base"
    /\ \E pv \in PrivateVals, first \in BOOLEAN :
        /\ ap' = AddPrivate(a, pv, first)
        /\ bp' = AddPrivate(b, pv, first)
    /\ rpa' = CompareValues(ap', b)
    /\ rpb' = CompareValues(a, bp')
    /\ pc' = "priv"
    /\ UNCHANGED <<a, b, c, rab, rba, rbase, rbc, rac>>
    /\ UNCHANGED convVars
    /\ UNCHANGED structVars

CallBC ==
    /\ pc = "ab"
    /\ rbc' = CompareValues(b, c)
    /\ pc' = "bc"
    /\ UNCHANGED <<a, b, c, rab, rba, rbase, ap, bp, rpa, rpb, rac>>
    /\ UNCHANGED convVars
    /\ UNCHANGED structVars

CallAC ==
    /\ pc = "bc"
    /\ rac' = CompareValues(a, c)
    /\ pc' = "ac"
    /\ UNCHANGED <<a, b, c, rab, rba, rbase, ap, bp, rpa, rpb, rbc>>
    /\ UNCHANGED convVars
    /\ UNCHANGED structVars

\* the conversions start from a text and a target variable
InitConv ==
    /\ a = InvalidValue /\ b = InvalidValue /\ c = InvalidValue
    /\ ap = a /\ bp = b
    /\ pc = "start"
    /\ NoResults
    /\ in \in Texts
    /\ \E v \in Targets : tgt = v.t /\ mem = v.mem
    /\ Fits(in, tgt)
    /\ fn = "" /\ how = "" /\ out = ZeroValue
    /\ res = Ret("", <<>>) /\ res2 = Ret("", <<>>)
    /\ resz = Ret("", <<>>) /\ resb = Ret("", <<>>)
    /\ NoStructCall

\* the call f(text, h) on memory m
Call(f, text, h, m) ==
    IF f = "StringToInterface" THEN StringToInterface(text, h, m)
    ELSE StringToValue(text, h, m)

CallStringToValue ==
    /\ pc = "start"
    /\ \E hw \in {"elem", "addr", "nilptr", "copy", "none"} :
        /\ how' = hw
        /\ out' = Arg(hw, tgt, mem).h
        /\ res' = StringToValue(in, Arg(hw, tgt, mem).h, Arg(hw, tgt, mem).mem)
    /\ fn' = "StringToValue"
    /\ pc' = "called"
    /\ UNCHANGED <<in, tgt, mem, res2, resz, resb>>
    /\ UNCHANGED cmpVars
    /\ UNCHANGED structVars

CallStringToInterface ==
    /\ pc = "start"
    /\ \E hw \in {"addr", "nilptr", "copy", "none"} :
        /\ how' = hw
        /\ out' = Arg(hw, tgt, mem).h
        /\ res' = StringToInterface(in, Arg(hw, tgt, mem).h, Arg(hw, tgt, mem).mem)
    /\ fn' = "StringToInterface"
    /\ pc' = "called"
    /\ UNCHANGED <<in, tgt, mem, res2, resz, resb>>
    /\ UNCHANGED cmpVars
    /\ UNCHANGED structVars

\* the same call once more, after the first has returned
CallAgain ==
    /\ pc = "called" /\ ~res.panic
    /\ res2' = Call(fn, in, out, res.mem)
    /\ pc' = "again"
    /\ UNCHANGED <<in, tgt, mem, fn, how, out, res, resz, resb>>
    /\ UNCHANGED cmpVars
    /\ UNCHANGED structVars

\* the same call with a zero-valued variable of the same type
CallZeroed ==
    /\ pc = "again"
    /\ resz' = Call(fn, in, Arg(how, tgt, <<Zero(tgt)>>).h, Arg(how, tgt, <<Zero(tgt)>>).mem)
    /\ pc' = "zeroed"
    /\ UNCHANGED <<in, tgt, mem, fn, how, out, res, res2, resb>>
    /\ UNCHANGED cmpVars
    /\ UNCHANGED structVars

\* the same call with the text in square brackets
CallBracketed ==
    /\ pc = "zeroed"
    /\ resb' = Call(fn, <<91>> \o in \o <<93>>, Arg(how, tgt, mem).h, Arg(how, tgt, mem).mem)
    /\ pc' = "bracketed"
    /\ UNCHANGED <<in, tgt, mem, fn, how, out, res, res2, resz>>
    /\ UNCHANGED cmpVars
    /\ UNCHANGED structVars

InitStruct ==
    /\ a = InvalidValue /\ b = InvalidValue /\ c = InvalidValue
    /\ ap = a /\ bp = b
    /\ pc = "start"
    /\ NoResults
    /\ NoConversion
    /\ src \in StructArgs /\ dst \in StructArgs /\ filter \in Filters
    /\ was = dst
    /\ rpe = FALSE /\ rlc = [panic |-> FALSE, err |-> "", dst |-> dst]
    /\ rfs = ZeroData

CallStructPartialEqual ==
    /\ pc = "start"
    /\ rpe' = StructPartialEqual(src, dst)
    /\ pc' = "equal"
    /\ UNCHANGED <<src, dst, filter, was, rlc, rfs>>
    /\ UNCHANGED cmpVars
    /\ UNCHANGED convVars

CallFilterStruct ==
    /\ pc = "equal"
    /\ rfs' = FilterStruct(src, filter)
    /\ pc' = "filtered"
    /\ UNCHANGED <<src, dst, filter, was, rpe, rlc>>
    /\ UNCHANGED cmpVars
    /\ UNCHANGED convVars

\* dst is what the caller's variable or value holds once the call has ended
CallLazyStructCopy ==
    /\ pc = "filtered"
    /\ rlc' = LazyStructCopy(src, dst)
    /\ dst' = LazyStructCopy(src, dst).dst
    /\ was' = dst
    /\ pc' = "copied"
    /\ UNCHANGED <<src, filter, rpe, rfs>>
    /\ UNCHANGED cmpVars
    /\ UNCHANGED convVars

Next == CallAB \/ CallBA \/ CallBase \/ CallPrivate

NextConv ==
    CallStringToValue \/ CallStringToInterface \/ CallAgain \/ CallZeroed \/ CallBracketed

NextTrans == CallAB \/ CallBC \/ CallAC

Spec == Init /\ [][Next]_vars

SpecTrans == InitTrans /\ [][NextTrans]_vars

SpecConv == InitConv /\ [][NextConv]_vars

NextStruct == CallStructPartialEqual \/ CallFilterStruct \/ CallLazyStructCopy

SpecStruct == InitStruct /\ [][NextStruct]_vars

\* ------------------------------------------------------------ properties
AfterAB == pc # "start"
AfterBA == pc \in {"ba", "base", "priv"}
AfterBase == pc \in {"base", "priv"}
AfterPrivate == pc = "priv"
AfterAC == pc = "ac"

Sign == {-1, 0, 1}

RECURSIVE Levels(_)
\* the number of pointer levels of data d
Levels(d) ==
    IF d.kind # "Ptr" THEN 0
    ELSE IF d.elems = <<>> THEN 1
    ELSE 1 + Levels(d.elems[1])

RECURSIVE BaseData(_)
\* what the pointers of d lead to; ZeroData past a nil pointer
BaseData(d) ==
    IF d.kind # "Ptr" THEN d
    ELSE IF d.elems = <<>> THEN ZeroData
    ELSE BaseData(d.elems[1])

IsPtr(h) == h.d.kind = "Ptr"
IsNil(h) == IsPtr(h) /\ h.d.elems = <<>>
\* a pointer none of whose levels is nil
NonNilChain(h) == IsPtr(h) /\ BaseData(h.d).kind # "Invalid"

\* the exported fields of a struct, as a set of [name, val]
PublicFields(d) == {d.flds[i] : i \in {j \in 1..Len(d.flds) : IsExported(d.flds[j].name)}}

\* both operands are structs, or pointers of the same depth to structs
StructPair ==
    /\ BaseData(a.d).kind = "Struct" /\ BaseData(b.d).kind = "Struct"
    /\ Levels(a.d) = Levels(b.d)

\* C1: antisymmetry: whenever both calls return,
\* CompareValues(a, b) = -CompareValues(b, a).
C1_Antisymmetry ==
    (AfterBA /\ ~rab.panic /\ ~rba.panic
       /\ Kind(a) \notin {"Invalid", "Chan", "Func"}
       /\ Kind(b) \notin {"Invalid", "Chan", "Func"})
    => rab.val = -rba.val

\* C2: CompareValues(a, b) never panics, whatever the operands.
C2_NeverPanics == AfterAB => ~rab.panic

\* C3: every value CompareValues and compareKind return is -1, 0 or +1,
\* also when it comes from the comparison of elements, fields or pointees.
C3_ResultRange ==
    /\ compareKind(Kind(a), Kind(b)) \in Sign
    /\ AfterAB => (rab.panic \/ rab.val \in Sign)
    /\ AfterBA => (rba.panic \/ rba.val \in Sign)
    /\ AfterBase => (rbase.panic \/ rbase.val \in Sign)
    /\ AfterPrivate => (rpa.panic \/ rpa.val \in Sign) /\ (rpb.panic \/ rpb.val \in Sign)

C3_Witness ==
    /\ AfterBA
    /\ Kind(a) = "Slice" /\ Kind(b) = "Slice"
    /\ Len(a.d.elems) = Len(b.d.elems) /\ Len(a.d.elems) >= 2
    /\ a.d.elems[1] = b.d.elems[1]
    /\ rab = R(-1) /\ rba = R(1)

\* C4: transitivity: when the three calls return, a <= b and b <= c give a <= c
\* (and a = b and b = c give a = c).
C4_Transitive ==
    (AfterAC /\ ~rab.panic /\ ~rbc.panic /\ ~rac.panic)
    => /\ (rab.val <= 0 /\ rbc.val <= 0) => rac.val <= 0
       /\ (rab.val = 0 /\ rbc.val = 0) => rac.val = 0

\* C5: kind dominance: two operands of different kinds, neither a pointer,
\* compare as their kinds do in reflect.Kind, whatever they hold: an int with a
\* string gives -1, a slice with an array gives +1.
C5_KindDominance ==
    (AfterAB /\ Kind(a) # Kind(b) /\ ~IsPtr(a) /\ ~IsPtr(b))
    => /\ rab = R(IF KindIndex(Kind(a)) < KindIndex(Kind(b)) THEN -1 ELSE 1)
       /\ (Kind(a) = "Int" /\ Kind(b) = "String") => rab = R(-1)
       /\ (Kind(a) = "Slice" /\ Kind(b) = "Array") => rab = R(1)

C5_Witness ==
    /\ AfterAB
    /\ Kind(a) = "Slice" /\ Kind(b) = "Array"
    /\ a.d.elems = b.d.elems /\ Len(a.d.elems) >= 2
    /\ rab = R(1)

\* C6 as stated: for non-nil pointer operands with any number of levels,
\* CompareValues(a, b) is CompareValues of the dereferenced values.
C6_PointerTransparent ==
    (AfterBase /\ NonNilChain(a) /\ NonNilChain(b)) => rab = rbase

\* C6 amended: for non-nil pointer operands the operand with more pointer
\* levels is the greater; with equal levels and base values of one kind,
\* CompareValues(a, b) is CompareValues of the dereferenced values.
C6_DepthThenBase ==
    (AfterBase /\ NonNilChain(a) /\ NonNilChain(b))
    => IF Levels(a.d) > Levels(b.d) THEN rab = R(1)
       ELSE IF Levels(a.d) < Levels(b.d) THEN rab = R(-1)
       ELSE BaseData(a.d).kind = BaseData(b.d).kind => rab = rbase

C6_Witness ==
    /\ AfterBase
    /\ Levels(a.d) = 2 /\ Levels(b.d) = 1
    /\ BaseData(a.d) = BaseData(b.d) /\ BaseData(a.d).kind = "Int"
    /\ rab = R(1) /\ rbase = R(0)

\* C7: of two pointers of one pointer type, two nil pointers compare 0 and a nil
\* pointer is less than a non-nil one, in both argument orders.
C7_NilPointerOrder ==
    (AfterBA /\ IsPtr(a) /\ IsPtr(b) /\ a.d.typ = b.d.typ)
    => /\ (IsNil(a) /\ IsNil(b)) => rab = R(0)
       /\ (IsNil(a) /\ ~IsNil(b)) => (rab = R(-1) /\ rba = R(1))

\* C8: two structs of differently named types with the same public fields
\* (names, kinds, values), declared in any order, compare 0; a private field
\* added to either operand's struct changes no result.
C8_StructuralEquality ==
    AfterPrivate
    => /\ rpa = rab
       /\ rpb = rab
       /\ (StructPair /\ a.d.typ # b.d.typ
             /\ PublicFields(BaseData(a.d)) = PublicFields(BaseData(b.d)))
          => rab = R(0)

\* C9: a struct with fewer public fields sorts before one with more, and two
\* structs of one type that differ in the value of a public field never compare
\* 0, whether passed by value or through a pointer.
C9_StructOrder ==
    (AfterAB /\ StructPair)
    => /\ Cardinality(PublicFields(BaseData(a.d))) < Cardinality(PublicFields(BaseData(b.d)))
          => rab = R(-1)
       /\ (BaseData(a.d).typ = BaseData(b.d).typ
             /\ Cardinality(PublicFields(BaseData(a.d)) \ PublicFields(BaseData(b.d))) = 1)
          => (~rab.panic /\ rab.val # 0)

\* CompareValues of the elements at index i of a and b
ElemResult(i) == CompareValues(Index(a, i), Index(b, i))

\* C10: of two arrays or two slices the shorter sorts first; with equal lengths
\* the result is that of the first index whose elements do not compare 0, and 0
\* when there is none.
C10_SequenceOrder ==
    (AfterAB /\ Kind(a) = Kind(b) /\ Kind(a) \in {"Array", "Slice"})
    => LET la == Len(a.d.elems)
           lb == Len(b.d.elems)
           differ == {i \in 1..la : ElemResult(i) # R(0)}
       IN  IF la < lb THEN rab = R(-1)
           ELSE IF la > lb THEN rab = R(1)
           ELSE IF differ = {} THEN rab = R(0)
           ELSE rab = ElemResult(CHOOSE i \in differ : \A j \in differ : i <= j)

C10_Witness ==
    /\ AfterBA
    /\ Kind(a) = "Array" /\ Kind(b) = "Array"
    /\ Len(a.d.elems) = Len(b.d.elems) /\ Len(a.d.elems) >= 2
    /\ ElemResult(1) = R(0) /\ ElemResult(2) = R(1)
    /\ rab = R(1) /\ rba = R(-1)

\* the entries of a map, as a set of [k, v]
EntSet(d) == {d.ents[i] : i \in 1..Len(d.ents)}
\* the keys of a map
KeySet(d) == {e.k : e \in EntSet(d)}

\* C11: two maps of one type with the same number of entries and the same keys
\* that differ in the value stored under some key never compare 0.
C11_MapValuesCompared ==
    (AfterAB /\ Kind(a) = "Map" /\ Kind(b) = "Map" /\ a.d.typ = b.d.typ
       /\ Len(a.d.ents) = Len(b.d.ents) /\ KeySet(a.d) = KeySet(b.d)
       /\ EntSet(a.d) # EntSet(b.d))
    => (~rab.panic /\ rab.val # 0)

\* ------------------------------------------------------------ the converter's properties
AfterCall == pc \in {"called", "again", "zeroed", "bracketed"}
AfterZeroed == pc \in {"zeroed", "bracketed"}
AfterBracketed == pc = "bracketed"

\* the handle StringToValue is given when the variable lives in memory m, and
\* the memory the call starts from
TargetIn(m) ==
    IF fn = "StringToInterface" THEN Indirect(Arg(how, tgt, m).h, Arg(how, tgt, m).mem)
    ELSE Arg(how, tgt, m).h
Target == TargetIn(mem)
Before == Arg(how, tgt, mem).mem

Succeeded(r) == ~r.panic /\ r.err = ""

RECURSIVE Snapshot(_, _)
\* the value d of memory m with each pointer replaced by what it points to
Snapshot(d, m) ==
    IF d.kind = "Ptr"
    THEN IF d.n = 0 THEN d ELSE [d EXCEPT !.n = 1, !.elems = <<Snapshot(m[d.n], m)>>]
    ELSE [d EXCEPT
            !.elems = [i \in 1..Len(@) |-> Snapshot(@[i], m)],
            !.ents = [i \in 1..Len(@) |-> Ent(Snapshot(@[i].k, m), Snapshot(@[i].v, m))]]

\* the target's value after the call with outcome r
ValueAfter(r) == Snapshot(Load(Target, r.mem), r.mem)

\* the conversion of text into a new variable of type t: whether it succeeded,
\* its error and the variable's value
ElemConv(text, t) ==
    LET r == StringToValue(text, New(t, <<>>).h, New(t, <<>>).mem)
    IN  [ok |-> Succeeded(r), panic |-> r.panic, err |-> r.err,
         v |-> Snapshot(r.mem[1], r.mem)]

\* the comma-separated elements of the input text
Parts == Split(in, 44)

\* the call converts into a settable array, slice, map or pointer
TargetKind(kinds) == AfterCall /\ IsValid(Target) /\ Target.t.kind \in kinds

\* C12: an array target of length N given k elements holds, for i < min(N, k),
\* the conversion of the trimmed element i in slot i and the zero value in the
\* other slots; elements from index N on are dropped without error.
C12_ArrayNeverResizes ==
    LET N == Target.t.len
        et == Target.t.elem[1]
        conv(i) == ElemConv(TrimSpace(Parts[i]), et)
        used == {i \in 1..N : i <= Len(Parts)}
    IN  (TargetKind({"Array"}) /\ Target.set /\ \A i \in used : conv(i).ok)
        => /\ Succeeded(res)
           /\ Len(ValueAfter(res).elems) = N
           /\ \A i \in 1..N :
                ValueAfter(res).elems[i] = IF i \in used THEN conv(i).v ELSE Zero(et)

\* "9, 8" into a [5]int{0,1,2,3,4} gives [9,8,0,0,0]
C12_Witness ==
    /\ AfterCall /\ fn = "StringToInterface" /\ how = "addr"
    /\ in = <<57, 44, 32, 56>>
    /\ Before[1] = ArrayV(TInt, <<IntV(0), IntV(1), IntV(2), IntV(3), IntV(4)>>)
    /\ Succeeded(res)
    /\ res.mem[1] = ArrayV(TInt, <<IntV(9), IntV(8), IntV(0), IntV(0), IntV(0)>>)

\* C13: a successful conversion into a slice target yields a slice of exactly
\* (number of commas + 1) elements, element i being the conversion of the i-th
\* element text as it stands, whatever the slice's previous length.
C13_SliceExactSize ==
    LET et == Target.t.elem[1]
        commas == Cardinality({i \in 1..Len(in) : in[i] = 44})
        after == ValueAfter(res).elems
    IN  (TargetKind({"Slice"}) /\ Succeeded(res))
        => /\ Len(after) = commas + 1
           /\ Len(Parts) = commas + 1
           /\ \A i \in 1..Len(after) :
                ElemConv(Parts[i], et).ok /\ after[i] = ElemConv(Parts[i], et).v

\* "one,two,three" into a []string{"a"} gives ["one","two","three"]
C13_Witness ==
    /\ AfterCall /\ fn = "StringToInterface" /\ how = "addr"
    /\ in = <<111, 110, 101, 44, 116, 119, 111, 44, 116, 104, 114, 101, 101>>
    /\ Before[1] = SliceV(TString, <<StringV(SA)>>)
    /\ Succeeded(res)
    /\ res.mem[1] = SliceV(TString, <<StringV(<<111, 110, 101>>), StringV(<<116, 119, 111>>),
                                       StringV(<<116, 104, 114, 101, 101>>)>>)

\* the entries of the input text that do not split around "=" into two parts
Malformed == {i \in 1..Len(Parts) : Len(Split(Parts[i], 61)) # 2}
\* the conversions of the key and of the value of the well-formed entry i
KeyConv(i) == ElemConv(Split(Parts[i], 61)[1], Target.t.key[1])
ValConv(i) == ElemConv(Split(Parts[i], 61)[2], Target.t.elem[1])
\* the well-formed entries whose key or value does not convert
Unconverted == {i \in (1..Len(Parts)) \ Malformed : ~KeyConv(i).ok \/ ~ValConv(i).ok}
\* the pairs of the text, a later entry replacing an earlier one of the same key
ParsedPairs ==
    {Ent(KeyConv(i).v, ValConv(i).v) :
        i \in {j \in 1..Len(Parts) :
                 \A k \in (j + 1)..Len(Parts) : KeyConv(k).v # KeyConv(j).v}}
\* the target holds what it held before the call
TargetUntouched == Load(Target, res.mem) = Load(Target, Before)

\* C14: a map conversion with an entry that has no "=" or more than one fails
\* with ErrParse and leaves the target as it was; otherwise, when the keys and
\* the values convert, the target holds exactly the parsed pairs, a later
\* duplicate key overwriting an earlier one.
C14_MapPairIntegrity ==
    (TargetKind({"Map"}) /\ Target.set)
    => /\ Malformed # {} => (res = Ret("ErrParse", res.mem) /\ TargetUntouched)
       /\ (Malformed = {} /\ Unconverted = {})
          => (Succeeded(res) /\ EntSet(ValueAfter(res)) = ParsedPairs)

\* C14 as amended: the first entry that is malformed or does not convert decides
\* the error, ErrParse for a malformed entry, and the target is left as it was;
\* with no such entry the target holds exactly the parsed pairs.
C14_FirstBadEntryDecides ==
    LET bad == Malformed \cup Unconverted
        first == CHOOSE i \in bad : \A j \in bad : i <= j
        err == IF first \in Malformed THEN "ErrParse"
               ELSE IF ~KeyConv(first).ok THEN KeyConv(first).err
               ELSE ValConv(first).err
    IN  (TargetKind({"Map"}) /\ Target.set)
        => IF bad # {}
           THEN res = Ret(err, res.mem) /\ TargetUntouched
           ELSE Succeeded(res) /\ EntSet(ValueAfter(res)) = ParsedPairs

\* "b=x,c" into a map[string]int{"1": 0} fails with the error of ParseInt("x")
C14_Witness ==
    /\ AfterCall /\ fn = "StringToInterface" /\ how = "addr"
    /\ in = <<98, 61, 120, 44, 99>>
    /\ Before[1] = MapV(TString, TInt, <<Ent(StringV(SOne), IntV(0))>>)
    /\ Malformed = {2} /\ Unconverted = {1}
    /\ res.err = "strconv.ErrSyntax"
    /\ res.mem[1] = Before[1]

RECURSIVE Plain(_)
\* neither t nor a type it is made of has an UnmarshalText method
Plain(t) ==
    /\ ~t.um
    /\ \A i \in 1..Len(t.key) : Plain(t.key[i])
    /\ \A i \in 1..Len(t.elem) : Plain(t.elem[i])

\* every cell that existed before the call holds what it held
MemoryUntouched == \A i \in 1..Len(Before) : res.mem[i] = Before[i]

\* the error of the first element of an array or slice target that does not
\* convert, of the pointee of a pointer target; "" when there is none
FirstElemError ==
    LET et == Target.t.elem[1]
        conv(i) == ElemConv(IF Target.t.kind = "Array" THEN TrimSpace(Parts[i]) ELSE Parts[i], et)
        tried == IF Target.t.kind = "Array" THEN {i \in 1..Len(Parts) : i <= Target.t.len}
                 ELSE 1..Len(Parts)
        bad == {i \in tried : ~conv(i).ok}
    IN  IF Target.t.kind = "Ptr" THEN ElemConv(in, et).err
        ELSE IF bad = {} THEN ""
        ELSE conv(CHOOSE i \in bad : \A j \in bad : i <= j).err

\* C15: when the conversion of an element, key, value or pointee fails, the call
\* returns that first error and every variable holds what it held before the
\* call: nothing partial is written to the target.
C15_NoPartialCommit ==
    (TargetKind({"Array", "Slice", "Map", "Ptr"}) /\ Plain(Target.t))
    => /\ ~res.panic /\ res.err # "" => MemoryUntouched
       /\ (Target.t.kind # "Map" /\ FirstElemError # "")
          => res = Ret(FirstElemError, res.mem)

\* "9,x" into a []int{1,1,1}: the error of ParseInt("x"), the slice as before
C15_Witness ==
    /\ AfterCall /\ fn = "StringToInterface" /\ how = "addr"
    /\ in = <<57, 44, 120>>
    /\ Before[1] = SliceV(TInt, <<IntV(1), IntV(1), IntV(1)>>)
    /\ res.err = "strconv.ErrSyntax" /\ ~res.panic
    /\ res.mem[1] = Before[1]

\* the value of the zero-valued variable after its call
ValueAfterZeroed ==
    Snapshot(Load(TargetIn(<<Zero(tgt)>>), resz.mem), resz.mem)

\* C16: a successful conversion into an array, slice or map target leaves the
\* value that the same conversion gives a zero-valued target, whatever the target
\* held before; and the same conversion made once more leaves it unchanged.
C16_ReplacedNotMerged ==
    (AfterZeroed /\ TargetKind({"Array", "Slice", "Map"}) /\ Succeeded(res))
    => /\ Succeeded(resz) /\ ValueAfter(res) = ValueAfterZeroed
       /\ Succeeded(res2) /\ ValueAfter(res2) = ValueAfter(res)

\* "a=1" into a map[string]string{"a": "5", "1": "5"} gives {"a": "1"}, twice
C16_Witness ==
    /\ AfterZeroed /\ fn = "StringToInterface" /\ how = "addr"
    /\ in = <<97, 61, 49>>
    /\ Before[1] = MapV(TString, TString, <<Ent(StringV(SA), StringV(SFive)),
                                            Ent(StringV(SOne), StringV(SFive))>>)
    /\ res.mem[1] = MapV(TString, TString, <<Ent(StringV(SA), StringV(SOne))>>)
    /\ Succeeded(res2) /\ res2.mem[1] = res.mem[1]
    /\ Succeeded(resz) /\ resz.mem[1] = res.mem[1]

RECURSIVE PointerBase(_)
\* the type a pointer type leads to
PointerBase(t) == IF t.kind = "Ptr" THEN PointerBase(t.elem[1]) ELSE t

RECURSIVE FreshChain(_, _, _)
\* d, of type t, is no pointer, or a pointer to a cell of memory m that did not
\* exist before the call and that holds a fresh chain itself
FreshChain(d, t, m) ==
    t.kind = "Ptr"
    => /\ d.n > Len(Before) /\ d.n <= Len(m)
       /\ FreshChain(m[d.n], t.elem[1], m)

RECURSIVE Innermost(_, _)
\* what a chain of non-nil pointers leads to
Innermost(d, m) == IF d.kind = "Ptr" THEN Innermost(m[d.n], m) ELSE d

\* C17: a successful conversion into a pointer target of any depth, nil or not,
\* makes the target refer to a chain of newly allocated pointees whose innermost
\* value is the conversion of the text, and modifies nothing the target pointed
\* to before.
C17_PointerConversion ==
    (TargetKind({"Ptr"}) /\ ~PointerBase(Target.t).um /\ Succeeded(res))
    => /\ FreshChain(Load(Target, res.mem), Target.t, res.mem)
       /\ ElemConv(in, PointerBase(Target.t)).ok
       /\ Snapshot(Innermost(Load(Target, res.mem), res.mem), res.mem)
            = ElemConv(in, PointerBase(Target.t)).v
       /\ \A i \in (1..Len(Before)) \ {Target.at} : res.mem[i] = Before[i]

\* "69" into a **int that leads to 1: a new chain that leads to 69, the old
\* pointees as they were
C17_Witness ==
    /\ AfterCall /\ fn = "StringToValue" /\ how = "elem"
    /\ in = <<54, 57>>
    /\ tgt = TyPtr(TyPtr(Ty("Int", TInt)))
    /\ Before = <<PtrTo(tgt, 2), PtrTo(tgt.elem[1], 3), IntV(1)>>
    /\ Succeeded(res)
    /\ res.mem = <<PtrTo(tgt, 4), PtrTo(tgt.elem[1], 3), IntV(1),
                   PtrTo(tgt.elem[1], 5), IntV(69)>>

\* t, or the type its pointers lead to, provides UnmarshalText
Provides(t) == PointerBase(t).um

\* C18: whenever the target's type provides UnmarshalText, however the target
\* is reached, the call is the method's: it returns the method's error, and on
\* success the target leads to the parsed value.
C18_UnmarshalerPrecedence ==
    (AfterCall /\ Provides(tgt) /\ how \in {"elem", "addr"})
    => /\ ~res.panic
       /\ res.err = ParseTime(in).err
       /\ res.err = ""
          => /\ Load(Target, res.mem).kind = "Ptr" => Load(Target, res.mem).n # 0
             /\ Innermost(Load(Target, res.mem), res.mem)
                  = [Zero(TyTime) EXCEPT !.n = ParseTime(in).date, !.im = ParseTime(in).clock]

\* C19: an absent target (nil or a typed nil pointer passed to StringToInterface,
\* the zero Value passed to StringToValue) makes the call return ErrInvalidParam
\* without a panic and without a write.
C19_AbsentTargetIsError ==
    (AfterCall /\ ~IsValid(Target)) => res = Ret("ErrInvalidParam", Before)

\* C20: a conversion into an array, slice or map target that succeeds with a flat
\* list succeeds with the list in square brackets and gives the same value.
C20_BracketsAccepted ==
    (AfterBracketed /\ TargetKind({"Array", "Slice", "Map"}) /\ Succeeded(res))
    => /\ Succeeded(resb)
       /\ Snapshot(Load(Target, resb.mem), resb.mem) = ValueAfter(res)

\* strconv.FormatBool: the canonical text of a bool
FormatBool(x) == IF x THEN <<116, 114, 117, 101>> ELSE <<102, 97, 108, 115, 101>>

\* v is a value of the integer kind: within its width, and not negative for an
\* unsigned kind (the integers of the model fit 32 bits)
InRange(v, kind) ==
    LET w == Bits(kind)
    IN  IF kind \in IntKinds THEN w >= 32 \/ (0 - 2 ^ (w - 1) <= v /\ v < 2 ^ (w - 1))
        ELSE v >= 0 /\ (w >= 32 \/ v < 2 ^ w)

\* the call converts into a variable that can be set
ScalarTarget == AfterCall /\ IsValid(Target) /\ Target.set

\* C21: scalar round trip.  For a bool, an integer within the target's width and
\* a string v, converting the canonical text of v into a settable target of v's
\* type succeeds and leaves the target equal to v; a string target holds the
\* text as it stands, whatever spaces, commas or equals signs it contains.
C21_ScalarRoundTrip ==
    LET t == Target.t
        after == Load(Target, res.mem)
    IN  ScalarTarget =>
        /\ (t.kind = "Bool" /\ t.name = TBool) =>
              \A v \in BOOLEAN :
                in = FormatBool(v) => (Succeeded(res) /\ after = BoolV(v))
        /\ t.kind \in IntKinds \cup UintKinds =>
              \A v \in Ints :
                (InRange(v, t.kind) /\ in = FormatInt(v))
                => (Succeeded(res) /\ after = [Zero(t) EXCEPT !.n = v])
        /\ (t.kind = "String" /\ t.name = TString) =>
              (Succeeded(res) /\ after = StringV(in))

\* "-128" into an int8 variable holding 1 gives -128
C21_Witness ==
    /\ AfterCall /\ fn = "StringToValue" /\ how = "elem"
    /\ in = FormatInt(-128)
    /\ Before[1] = Int8V(1)
    /\ Succeeded(res)
    /\ res.mem[1] = Int8V(-128)

\* the text is a base-10 integer: an optional sign, then one digit or more
Unsigned(s) == IF s # <<>> /\ s[1] \in {43, 45} THEN Tail(s) ELSE s
IntegerText(s) == Unsigned(s) # <<>> /\ AllDigits(Unsigned(s))
NegativeText(s) == s # <<>> /\ s[1] = 45
SignedText(s) == s # <<>> /\ s[1] \in {43, 45}

\* the integer the text denotes lies outside the 64-bit range of the kind:
\* beyond 2^63 - 1, below -2^63, or beyond 2^64 - 1 for an unsigned kind
Outside64(s, kind) ==
    LET max == <<57, 50, 50, 51, 51, 55, 50, 48, 51, 54, 56, 53, 52, 55, 55, 53, 56, 48>>
        umax == <<49, 56, 52, 52, 54, 55, 52, 52, 48, 55, 51, 55, 48, 57, 53, 53,
                  49, 54, 49, 53>>
    IN  IF kind \in UintKinds THEN Exceeds(Unsigned(s), umax)
        ELSE Exceeds(Unsigned(s), max \o (IF NegativeText(s) THEN <<56>> ELSE <<55>>))

\* the integer the text denotes
Denoted(s) == IF NegativeText(s) THEN 0 - Atoi(Unsigned(s)) ELSE Atoi(Unsigned(s))

\* v modulo 2^w as a value of the kind (two's complement for a signed kind);
\* the integers of the model fit 32 bits
Narrowed(v, kind) ==
    LET w == Bits(kind)
        range == IF kind \in IntKinds THEN (0 - 2 ^ (w - 1))..(2 ^ (w - 1) - 1)
                 ELSE 0..(2 ^ w - 1)
    IN  IF w >= 32 THEN v ELSE CHOOSE x \in range : (x - v) % (2 ^ w) = 0

\* the outcome the claim describes for an integer target when the text is or is
\* not acceptable
NarrowingOutcome(accepted) ==
    LET t == Target.t
    IN  IF accepted
        THEN /\ Succeeded(res)
             /\ Load(Target, res.mem) = [Zero(t) EXCEPT !.n = Narrowed(Denoted(in), t.kind)]
        ELSE ~res.panic /\ res.err # "" /\ TargetUntouched

IntegerTarget == ScalarTarget /\ Target.t.kind \in IntKinds \cup UintKinds

\* C22 as claimed: an integer target takes every base-10 integer text within the
\* 64-bit range, negative text for an unsigned target excepted, and stores the
\* number modulo 2^w; every other text is an error that leaves the target as it
\* was.
C22_TruncatingNarrowing ==
    IntegerTarget =>
        NarrowingOutcome(/\ IntegerText(in)
                         /\ ~Outside64(in, Target.t.kind)
                         /\ ~(Target.t.kind \in UintKinds /\ NegativeText(in)))

\* C22 as the code has it: an unsigned target takes no sign at all, "+5" is an
\* error for it as "-1" is; otherwise as claimed.
C22_UnsignedTakesNoSign ==
    IntegerTarget =>
        NarrowingOutcome(/\ IntegerText(in)
                         /\ ~Outside64(in, Target.t.kind)
                         /\ ~(Target.t.kind \in UintKinds /\ SignedText(in)))

\* "300" into an int8 variable holding 1 gives 44 and no error
C22_Witness ==
    /\ AfterCall /\ fn = "StringToInterface" /\ how = "addr"
    /\ in = <<51, 48, 48>>
    /\ Before[1] = Int8V(1)
    /\ Succeeded(res)
    /\ res.mem[1] = Int8V(44)

\* the error of a kind the converter cannot populate, "" for the other kinds
Unpopulated(t) ==
    IF t.kind = "Struct" THEN "ErrNotImplemented"
    ELSE IF t.kind \in {"Func", "Chan", "Interface", "UnsafePointer"} THEN "ErrUnsupported"
    ELSE ""

RECURSIVE FirstConverted(_)
\* the type whose conversion a text of any form reaches first: the pointee of a
\* pointer without UnmarshalText, the element of a slice and of an array that
\* has elements
FirstConverted(t) ==
    IF (t.kind = "Ptr" /\ ~Implements(t)) \/ t.kind = "Slice"
       \/ (t.kind = "Array" /\ t.len > 0)
    THEN FirstConverted(t.elem[1]) ELSE t

\* the target and what its pointers lead to are as before the call
ValueUntouched ==
    /\ TargetUntouched
    /\ ValueAfter(res) = Snapshot(Load(Target, Before), Before)

\* C23: a struct target returns ErrNotImplemented and a function, channel,
\* interface or unsafe-pointer target ErrUnsupported, the target unchanged;
\* the same holds when such a type is the pointee, the slice element or the
\* array element a conversion reaches, and a map with such a value type never
\* converts: the value's error is returned as soon as an entry's key converts.
C23_UnpopulatedKindsFail ==
    LET t == Target.t
        first == Split(Parts[1], 61)
    IN  (AfterCall /\ IsValid(Target)) =>
        /\ Unpopulated(FirstConverted(t)) # "" =>
              /\ ~res.panic /\ res.err = Unpopulated(FirstConverted(t))
              /\ ValueUntouched
        /\ (t.kind = "Map" /\ Unpopulated(t.elem[1]) # "") =>
              /\ ~res.panic /\ res.err # ""
              /\ ValueUntouched
              /\ (Len(first) = 2 /\ ElemConv(first[1], t.key[1]).ok)
                 => res.err = Unpopulated(t.elem[1])

\* "a=1" into a map[string]func() returns ErrUnsupported and leaves the map
C23_Witness ==
    /\ AfterCall /\ fn = "StringToInterface" /\ how = "addr"
    /\ in = <<97, 61, 49>>
    /\ Before[1] = MapV(TString, TFunc, <<Ent(StringV(SA), FuncV(1))>>)
    /\ ~res.panic /\ res.err = "ErrUnsupported"
    /\ res.mem[1] = Before[1]

\* C30: the elements of an array target are converted after strings.TrimSpace,
\* those of a slice target and the keys and values of a map target as they
\* stand: the call succeeds exactly when those conversions do, and the target
\* then holds their values.  So "1, 2" converts into a [2]int and is a syntax
\* error for a []int, and "red, green" gives a []string the element " green".
C30_WhitespaceByKind ==
    LET t == Target.t
        et == t.elem[1]
        after == ValueAfter(res)
        used == {i \in 1..Len(Parts) : i <= t.len}
        trimmed(i) == ElemConv(TrimSpace(Parts[i]), et)
        verbatim(i) == ElemConv(Parts[i], et)
    IN  ScalarTarget =>
        /\ t.kind = "Array" =>
              /\ Succeeded(res) <=> \A i \in used : trimmed(i).ok
              /\ Succeeded(res) => \A i \in used : after.elems[i] = trimmed(i).v
        /\ t.kind = "Slice" =>
              /\ Succeeded(res) <=> \A i \in 1..Len(Parts) : verbatim(i).ok
              /\ Succeeded(res) => \A i \in 1..Len(Parts) : after.elems[i] = verbatim(i).v
        /\ t.kind = "Map" =>
              /\ Succeeded(res) <=> (Malformed = {} /\ Unconverted = {})
              /\ Succeeded(res) => EntSet(after) = ParsedPairs
        /\ (in = <<49, 44, 32, 50>> /\ t.name = TArray(2, TInt)) =>
              (Succeeded(res) /\ after = ArrayV(TInt, <<IntV(1), IntV(2)>>))
        /\ (in = <<49, 44, 32, 50>> /\ t.name = TSlice(TInt)) =>
              (res.err = "strconv.ErrSyntax" /\ TargetUntouched)
        /\ (in = <<114, 101, 100, 44, 32, 103, 114, 101, 101, 110>>
            /\ t.name = TSlice(TString)) =>
              (Succeeded(res) /\ after.elems[2] = StringV(<<32, 103, 114, 101, 101, 110>>))

\* "red, green" into a []string{"a"} gives ["red", " green"]
C30_Witness ==
    /\ AfterCall /\ fn = "StringToInterface" /\ how = "addr"
    /\ in = <<114, 101, 100, 44, 32, 103, 114, 101, 101, 110>>
    /\ Before[1] = SliceV(TString, <<StringV(SA)>>)
    /\ Succeeded(res)
    /\ res.mem[1] = SliceV(TString, <<StringV(<<114, 101, 100>>),
                                       StringV(<<32, 103, 114, 101, 101, 110>>)>>)

\* ------------------------------------------------------------ the struct helpers' properties
AfterEqual == pc \in {"equal", "filtered", "copied"}
AfterFilter == pc \in {"filtered", "copied"}
AfterCopy == pc = "copied"

\* the argument is a struct or a non-nil pointer to a struct
IsStructArg(x) == Kind(IndirectValueOf(x)) = "Struct"
\* the fields of a struct argument
FieldsOf(x) == {IndirectValueOf(x).d.flds[i] : i \in 1..Len(IndirectValueOf(x).d.flds)}

\* a field of x and a field of y have the same name and the same type
SharedField(x, y) ==
    \E f \in FieldsOf(x), g \in FieldsOf(y) : f.name = g.name /\ f.val.typ = g.val.typ

\* C24: StructPartialEqual(x, y) is true if and only if x and y are structs or
\* pointers to structs and have a field of the same name and the same type.
C24_PartialEqualByNameAndType ==
    AfterEqual =>
        (rpe <=> (IsStructArg(src) /\ IsStructArg(was) /\ SharedField(src, was)))

\* the value the claim gives field g of dst after LazyStructCopy(x, y): that of
\* the field of x of the same name and type if g is exported, else its own
CopiedField(x, g) ==
    LET from == {f \in FieldsOf(x) : f.name = g.name /\ f.val.typ = g.val.typ}
    IN  IF IsExported(g.name) /\ from # {} THEN CHOOSE f \in from : TRUE ELSE g

\* C25: for struct arguments LazyStructCopy returns nil without panicking and
\* leaves in each field of dst the value of the src field of the same name and
\* type if dst's field is exported, its previous value otherwise; for any other
\* argument it returns ErrInvalidParam and changes nothing.
C25_LazyCopyFrame ==
    LET before == IndirectValueOf(was).d.flds
        after == IndirectValueOf(dst).d.flds
    IN  AfterCopy =>
        IF IsStructArg(src) /\ IsStructArg(was)
        THEN /\ ~rlc.panic /\ rlc.err = ""
             /\ Len(after) = Len(before)
             /\ \A j \in 1..Len(before) : after[j] = CopiedField(src, before[j])
        ELSE ~rlc.panic /\ rlc.err = "ErrInvalidParam" /\ dst = was

\* the argument in its other form: the struct a pointer leads to, the pointer to
\* a struct value
OtherForm(x) == IF x.kind = "Ptr" THEN x.elems[1] ELSE PtrV(x)

\* C26: FilterStruct returns nil for nil and for what is not a struct, and else
\* a pointer to a new struct of the exported fields of in whose names are not in
\* filter, in declaration order and zero-valued; the fields are the same for a
\* struct value and for a pointer to it.
C26_FilterStructFields ==
    LET v == IndirectValueOf(src)
        keep(f) == IsExported(f.name) /\ \A i \in 1..Len(filter) : filter[i] # f.name
        fields == SelectSeq(v.d.flds, keep)
    IN  AfterFilter =>
        IF ~IsStructArg(src) THEN rfs = ZeroData
        ELSE /\ rfs.kind = "Ptr" /\ rfs.elems # <<>>
             /\ rfs.elems[1].flds
                  = [i \in 1..Len(fields) |-> Fld(fields[i].name, ZeroOf(fields[i].val))]
             /\ FilterStruct(OtherForm(src), filter) = rfs

\* ------------------------------------------------------------ kind order, integers, map keys
\* the order in which the claim lists the kinds, the integer kinds and the
\* unsupported kinds each in one place
ListedKinds ==
    << {"Bool"}, IntKinds, UintKinds, {"Float32"}, {"Float64"}, {"Complex64"},
       {"Complex128"}, {"String"}, {"Array"}, {"Slice"}, {"Map"}, {"Struct"}, {"Ptr"},
       {"Interface"}, {"Chan", "Func", "UnsafePointer"} >>
ListedIndex(k) == CHOOSE i \in 1..Len(ListedKinds) : k \in ListedKinds[i]

\* the declaration order of reflect.Kind
EnumeratedKinds ==
    << "Invalid", "Bool", "Int", "Int8", "Int16", "Int32", "Int64",
       "Uint", "Uint8", "Uint16", "Uint32", "Uint64", "Uintptr",
       "Float32", "Float64", "Complex64", "Complex128",
       "Array", "Chan", "Func", "Interface", "Map", "Ptr", "Slice",
       "String", "Struct", "UnsafePointer" >>
EnumeratedIndex(k) == CHOOSE i \in 1..Len(EnumeratedKinds) : EnumeratedKinds[i] = k

\* -1, 0 or +1 as i is less than, equal to or greater than j
Order(i, j) == IF i < j THEN -1 ELSE IF i > j THEN 1 ELSE 0

\* C27 as claimed: compareKind, and CompareValues of operands of different
\* kinds, order by the position of the kinds in bool < int < uint < float32 <
\* float64 < complex64 < complex128 < string < array < slice < map < struct <
\* pointer < interface < unsupported.
C27_ListedKindOrder ==
    LET i == ListedIndex(Kind(a))
        j == ListedIndex(Kind(b))
    IN  (AfterAB /\ Kind(a) # "Invalid" /\ Kind(b) # "Invalid" /\ i # j)
        => /\ compareKind(Kind(a), Kind(b)) = Order(i, j)
           /\ rab = R(Order(i, j))

\* C27 as the code has it: the order is that of reflect.Kind, in which an array
\* comes before a map, a map before a pointer, a pointer before a slice, a slice
\* before a string and a string before a struct.
C27_ReflectKindOrder ==
    LET i == EnumeratedIndex(Kind(a))
        j == EnumeratedIndex(Kind(b))
    IN  AfterAB
        => /\ compareKind(Kind(a), Kind(b)) = Order(i, j)
           /\ i # j => rab = R(Order(i, j))
           /\ (Kind(a) = "Array" /\ Kind(b) = "String") => rab = R(-1)
           /\ (Kind(a) = "Map" /\ Kind(b) = "Slice") => rab = R(-1)
           /\ (Kind(a) = "Ptr" /\ Kind(b) = "Struct") => rab = R(-1)

\* a string compared with an array gives +1
C27_Witness ==
    /\ AfterAB
    /\ Kind(a) = "String" /\ Kind(b) = "Array"
    /\ rab = R(1)

BothKind(kinds) == Kind(a) \in kinds /\ Kind(b) \in kinds

\* C28 as claimed: two signed integers, or two unsigned integers, of any bit
\* widths compare by their numbers, and two bools as false < true.
C28_IntegersNumeric ==
    AfterAB =>
        /\ (BothKind(IntKinds) \/ BothKind(UintKinds)) => rab = R(Order(a.d.n, b.d.n))
        /\ BothKind({"Bool"})
           => rab = R(Order(IF a.d.b THEN 1 ELSE 0, IF b.d.b THEN 1 ELSE 0))

\* C28 as the code has it: two integers of one kind compare by their numbers;
\* two integers of different kinds (int and int8, uint and uint8) compare as
\* their kinds do, whatever their numbers; two bools as false < true.
C28_NumericWithinOneKind ==
    AfterAB =>
        /\ (BothKind(IntKinds \cup UintKinds) /\ Kind(a) = Kind(b))
           => rab = R(Order(a.d.n, b.d.n))
        /\ (BothKind(IntKinds \cup UintKinds) /\ Kind(a) # Kind(b))
           => rab = R(Order(EnumeratedIndex(Kind(a)), EnumeratedIndex(Kind(b))))
        /\ BothKind({"Bool"})
           => rab = R(Order(IF a.d.b THEN 1 ELSE 0, IF b.d.b THEN 1 ELSE 0))

\* int8(-1) compared with int8(0) gives -1
C28_Witness ==
    /\ AfterAB
    /\ a.d = Int8V(-1) /\ b.d = Int8V(0)
    /\ rab = R(-1)

\* the texts of the string keys of a map, sorted ascending
SortedKeyTexts(d) == SortNames([i \in 1..Len(d.ents) |-> d.ents[i].k.str])
StringKeyed(d) == \A i \in 1..Len(d.ents) : d.ents[i].k.kind = "String"

\* C29: of two maps the one with fewer entries is the lesser; with equal sizes
\* the sorted keys are compared pairwise and the first differing key decides,
\* so two maps of one size whose key sets differ never compare 0, with string
\* keys and with integer keys.
C29_MapSizeAndKeys ==
    LET n == Len(a.d.ents)
        m == Len(b.d.ents)
        ak == SortedKeyTexts(a.d)
        bk == SortedKeyTexts(b.d)
        diff == {i \in 1..n : ak[i] # bk[i]}
        first == CHOOSE i \in diff : \A j \in diff : i <= j
    IN  (AfterAB /\ BothKind({"Map"})) =>
        /\ n < m => rab = R(-1)
        /\ n > m => rab = R(1)
        /\ (n = m /\ StringKeyed(a.d) /\ StringKeyed(b.d) /\ diff # {})
           => rab = R(StringsCompare(ak[first], bk[first]))
        /\ (n = m /\ KeySet(a.d) # KeySet(b.d)) => (~rab.panic /\ rab.val # 0)

====
